---- MODULE Spec2Model ----
(***************************************************************************)
(* Project explorer of the test-authoring IDE (LeftSidebar.tsx): the tree  *)
(* of projects, folders and test cases with hierarchical tri-state         *)
(* checkbox selection, and the create / delete handlers that mutate it.    *)
(*                                                                         *)
(* A TreeNode is a record.  Optional boolean fields of the source          *)
(* (selected?, indeterminate?, isExpanded?) are only ever read for their   *)
(* truthiness, so an absent field is modelled as FALSE.  The optional      *)
(* children field is different: an empty array is truthy in the source, so *)
(* "children" is a field of the record exactly when the source node has a  *)
(* children array (possibly empty).                                        *)
(*                                                                         *)
(* The create and delete handlers run from modal dialogs.  The dialog      *)
(* state (show...Dialog, parentFolderId, currentFolderForTestDeletion,     *)
(* new...Name) is set by the handle... callbacks right before and cleared  *)
(* by the handler itself, so it is modelled as the handler's input, drawn  *)
(* from the values the call sites of the handle... callbacks can pass.     *)
(*                                                                         *)
(* The module also holds the action library (TEST_ACTIONS, PAGE_OBJECTS,   *)
(* getActionSuggestions, getObjectSuggestions), the SuggestionPopover that *)
(* calls it and the TestStepInput that opens the popover.  Strings are     *)
(* TLA+ strings and the string methods are computed character by           *)
(* character.                                                              *)
(***************************************************************************)
EXTENDS Integers, Sequences, FiniteSets, TLC

VARIABLES
  treeData,                      \* useState<TreeNode[]>
  now,                           \* Date.now(), used to build fresh ids
  tree0,                         \* the tree a recorded call sequence started from
  calls,                         \* the recorded sequence of calls
  value,                         \* TestStepInput: the value prop of the input
  selectionStart,                \* TestStepInput: inputRef.current.selectionStart
  showSuggestions,               \* TestStepInput: useState(false)
  suggestionType,                \* TestStepInput: useState('action')
  searchTerm,                    \* TestStepInput: useState('')
  cursorPosition,                \* TestStepInput: useState(0)
  suggestions,                   \* SuggestionPopover: useState([])
  selectedIndex,                 \* SuggestionPopover: useState(0)
  library,                       \* the arrays TEST_ACTIONS and PAGE_OBJECTS
  pendingUpdates,                \* setTreeData calls not yet rendered
  enhancedSteps,                 \* TestCaseEditor: the steps of TestStepsContainer
  focusedStepId,                 \* TestStepsContainer: useState(null)
  testSets,                      \* TestCaseEditor: useState<TestSet[]>
  steps,                         \* TestCaseEditor: the steps of the table view
  editor,                        \* the auto-saving TestCaseEditor's state
  mockExecutions,                \* testExecutionService: the executions
  tasks                          \* timers and promises not yet run

vars == <<treeData, now, tree0, calls, value, selectionStart, showSuggestions,
          suggestionType, searchTerm, cursorPosition, suggestions,
          selectedIndex,
          library, pendingUpdates, enhancedSteps, focusedStepId,
              testSets, steps, editor,
          mockExecutions, tasks>>

\* Bounds of the model.
MaxCreated == 1   \* nodes created through the dialogs
MaxCalls == 3     \* length of a recorded call sequence
MaxQueryLen == 6  \* length of a query handed to the suggestion functions

(***************************************************************************)
(* Tree nodes                                                              *)
(***************************************************************************)
TestNode(id, name) ==
  [id |-> id, name |-> name, type |-> "test",
   isExpanded |-> FALSE, selected |-> FALSE, indeterminate |-> FALSE]

FolderNode(id, name, isExpanded, children) ==
  [id |-> id, name |-> name, type |-> "folder",
   isExpanded |-> isExpanded, selected |-> FALSE, indeterminate |-> FALSE,
   children |-> children]

ProjectNode(id, name, children) ==
  [id |-> id, name |-> name, type |-> "project",
   isExpanded |-> TRUE, selected |-> FALSE, indeterminate |-> FALSE,
   children |-> children]

\* The hard-coded initial value of treeData.
InitialTree ==
  << ProjectNode("1", "Demo Workspace",
       << FolderNode("2", "Authentication Tests", TRUE,
            << TestNode("3", "Login Flow"),
               TestNode("4", "Registration Flow"),
               TestNode("5", "Password Reset") >>),
          FolderNode("6", "Shopping Cart Tests", FALSE,
            << TestNode("7", "Add to Cart"),
               TestNode("8", "Remove from Cart"),
               TestNode("9", "Checkout Process") >>) >>) >>

\* `node.children` is truthy: the node carries a children array.
HasChildren(node) == "children" \in DOMAIN node

\* nodes.map(f)
Map(nodes, f(_)) == [i \in 1..Len(nodes) |-> f(nodes[i])]

\* nodes.filter(p)
Filter(nodes, p(_)) == SelectSeq(nodes, p)

(***************************************************************************)
(* Selection propagation                                                   *)
(***************************************************************************)
\* updateAllChildren that forgets `indeterminate: false`.
RECURSIVE updateAllChildrenKeepIndeterminate(_, _)
updateAllChildrenKeepIndeterminate(children, selected) ==
  LET one(child) ==
        LET flagged == [child EXCEPT !.selected = selected]
        IN  IF HasChildren(child)
              THEN [flagged EXCEPT
                      !.children =
                         updateAllChildrenKeepIndeterminate(child.children,
                                                            selected)]
              ELSE flagged
  IN  Map(children, one)

RECURSIVE updateAllChildren(_, _)
updateAllChildren(children, selected) ==
  LET one(child) ==
        LET flagged == [child EXCEPT !.selected = selected,
                                     !.indeterminate = FALSE]
        IN  IF HasChildren(child)
              THEN [flagged EXCEPT
                      !.children = updateAllChildren(child.children, selected)]
              ELSE flagged
  IN  Map(children, one)

\* updateParentState whose second test forgets the indeterminate children.
updateParentStateIgnoreIndeterminate(node) ==
  IF ~HasChildren(node) THEN node
  ELSE
    LET selectedChildren == Filter(node.children, LAMBDA child : child.selected)
    IN  IF Len(selectedChildren) = Len(node.children)
          THEN [node EXCEPT !.selected = TRUE, !.indeterminate = FALSE]
        ELSE IF Len(selectedChildren) > 0
          THEN [node EXCEPT !.selected = FALSE, !.indeterminate = TRUE]
        ELSE [node EXCEPT !.selected = FALSE, !.indeterminate = FALSE]

\* updateParentState without the all-children-selected branch.
updateParentStateNoAllSelected(node) ==
  IF ~HasChildren(node) THEN node
  ELSE
    LET selectedChildren == Filter(node.children, LAMBDA child : child.selected)
        indeterminateChildren ==
          Filter(node.children, LAMBDA child : child.indeterminate)
    IN  IF Len(selectedChildren) > 0 \/ Len(indeterminateChildren) > 0
          THEN [node EXCEPT !.selected = FALSE, !.indeterminate = TRUE]
        ELSE [node EXCEPT !.selected = FALSE, !.indeterminate = FALSE]

\* updateParentState that takes any selected child for all of them.
updateParentStateAnySelected(node) ==
  IF ~HasChildren(node) THEN node
  ELSE
    LET selectedChildren == Filter(node.children, LAMBDA child : child.selected)
        indeterminateChildren ==
          Filter(node.children, LAMBDA child : child.indeterminate)
    IN  IF Len(selectedChildren) > 0
          THEN [node EXCEPT !.selected = TRUE, !.indeterminate = FALSE]
        ELSE IF Len(indeterminateChildren) > 0
          THEN [node EXCEPT !.selected = FALSE, !.indeterminate = TRUE]
        ELSE [node EXCEPT !.selected = FALSE, !.indeterminate = FALSE]

\* updateParentState whose last branch leaves `indeterminate` as it was.
updateParentStateKeepIndeterminate(node) ==
  IF ~HasChildren(node) THEN node
  ELSE
    LET selectedChildren == Filter(node.children, LAMBDA child : child.selected)
        indeterminateChildren ==
          Filter(node.children, LAMBDA child : child.indeterminate)
    IN  IF Len(selectedChildren) = Len(node.children)
          THEN [node EXCEPT !.selected = TRUE, !.indeterminate = FALSE]
        ELSE IF Len(selectedChildren) > 0 \/ Len(indeterminateChildren) > 0
          THEN [node EXCEPT !.selected = FALSE, !.indeterminate = TRUE]
        ELSE [node EXCEPT !.selected = FALSE]

updateParentState(node) ==
  IF ~HasChildren(node) THEN node
  ELSE
    LET selectedChildren == Filter(node.children, LAMBDA child : child.selected)
        indeterminateChildren ==
          Filter(node.children, LAMBDA child : child.indeterminate)
    IN  IF Len(selectedChildren) = Len(node.children)
          THEN [node EXCEPT !.selected = TRUE, !.indeterminate = FALSE]
        ELSE IF Len(selectedChildren) > 0 \/ Len(indeterminateChildren) > 0
          THEN [node EXCEPT !.selected = FALSE, !.indeterminate = TRUE]
        ELSE [node EXCEPT !.selected = FALSE, !.indeterminate = FALSE]

\* updateNodeSelection that recomputes a parent from its children as they
\* were before the call.
RECURSIVE updateNodeSelectionStaleParent(_, _, _)
updateNodeSelectionStaleParent(nodes, nodeId, selected) ==
  LET one(node) ==
        IF node.id = nodeId
          THEN LET updatedNode == [node EXCEPT !.selected = selected]
               IN  IF HasChildren(updatedNode)
                     THEN [updatedNode EXCEPT
                             !.children = updateAllChildren(updatedNode.children,
                                                            selected)]
                     ELSE updatedNode
        ELSE IF HasChildren(node)
          THEN [updateParentState(node) EXCEPT
                  !.children = updateNodeSelectionStaleParent(node.children,
                                                              nodeId, selected)]
        ELSE node
  IN  Map(nodes, one)

RECURSIVE updateNodeSelection(_, _, _)
updateNodeSelection(nodes, nodeId, selected) ==
  LET one(node) ==
        IF node.id = nodeId
          THEN LET updatedNode == [node EXCEPT !.selected = selected]
               IN  IF HasChildren(updatedNode)
                     THEN [updatedNode EXCEPT
                             !.children = updateAllChildren(updatedNode.children,
                                                            selected)]
                     ELSE updatedNode
        ELSE IF HasChildren(node)
          THEN updateParentState(
                 [node EXCEPT
                    !.children = updateNodeSelection(node.children, nodeId,
                                                     selected)])
        ELSE node
  IN  Map(nodes, one)

(***************************************************************************)
(* Expand / collapse                                                       *)
(***************************************************************************)
\* updateNode that expands the node instead of flipping the flag.
RECURSIVE updateNodeAlwaysExpand(_, _)
updateNodeAlwaysExpand(nodes, nodeId) ==
  LET one(node) ==
        IF node.id = nodeId THEN [node EXCEPT !.isExpanded = TRUE]
        ELSE IF HasChildren(node)
          THEN [node EXCEPT
                  !.children = updateNodeAlwaysExpand(node.children, nodeId)]
        ELSE node
  IN  Map(nodes, one)

\* updateNode in toggleExpanded.
RECURSIVE updateNode(_, _)
updateNode(nodes, nodeId) ==
  LET one(node) ==
        IF node.id = nodeId THEN [node EXCEPT !.isExpanded = ~node.isExpanded]
        ELSE IF HasChildren(node)
          THEN [node EXCEPT !.children = updateNode(node.children, nodeId)]
        ELSE node
  IN  Map(nodes, one)

(***************************************************************************)
(* Queries on the tree                                                     *)
(***************************************************************************)
\* findFolder that looks at the top-level nodes only.
findFolderTopLevel(nodes, folderId) ==
  LET hits == Filter(nodes, LAMBDA node : node.id = folderId)
  IN  IF Len(hits) > 0 THEN <<hits[1]>> ELSE <<>>

\* findFolder in getSelectedTestCasesInFolder: depth-first, first match.
\* The result is <<node>> when a node is found and <<>> for null.
RECURSIVE findFolder(_, _)
findFolder(nodes, folderId) ==
  IF Len(nodes) = 0 THEN <<>>
  ELSE LET node == Head(nodes)
       IN  IF node.id = folderId THEN <<node>>
           ELSE LET found == IF HasChildren(node)
                               THEN findFolder(node.children, folderId)
                               ELSE <<>>
                IN  IF Len(found) > 0 THEN found
                    ELSE findFolder(Tail(nodes), folderId)

\* getSelectedTestCasesInFolder without the `child.type === 'test'` test.
getSelectedTestCasesInFolderAnyType(nodes, folderId) ==
  LET folder == findFolder(nodes, folderId)
  IN  IF Len(folder) > 0 /\ HasChildren(folder[1])
        THEN Filter(folder[1].children, LAMBDA child : child.selected)
        ELSE <<>>

getSelectedTestCasesInFolder(nodes, folderId) ==
  LET folder == findFolder(nodes, folderId)
  IN  IF Len(folder) > 0 /\ HasChildren(folder[1])
        THEN Filter(folder[1].children,
                    LAMBDA child : child.type = "test" /\ child.selected)
        ELSE <<>>

\* traverse in getSelectedFolders: pre-order over the whole tree.
RECURSIVE getSelectedFolders(_)
getSelectedFolders(nodes) ==
  IF Len(nodes) = 0 THEN <<>>
  ELSE LET node == Head(nodes)
       IN  (IF node.selected /\ node.type = "folder" THEN <<node>> ELSE <<>>)
           \o (IF HasChildren(node) THEN getSelectedFolders(node.children)
                                    ELSE <<>>)
           \o getSelectedFolders(Tail(nodes))

getSelectedProjects(nodes) ==
  Filter(nodes, LAMBDA node : node.selected /\ node.type = "project")

\* selectedList.some(selected => selected.id === id)
SomeId(selectedList, id) == \E i \in 1..Len(selectedList) : selectedList[i].id = id

(***************************************************************************)
(* Tree rebuilds of the create and delete handlers                         *)
(***************************************************************************)
\* { ...node, children: [...(node.children || []), newNode] }
WithNewChild(node, newNode) ==
  IF HasChildren(node)
    THEN [node EXCEPT !.children = Append(node.children, newNode)]
    ELSE [f \in DOMAIN node \cup {"children"} |->
            IF f = "children" THEN <<newNode>> ELSE node[f]]

\* addFolderToParent / addTestCaseToParent (the two are the same rebuild).
RECURSIVE addToParent(_, _, _)
addToParent(nodes, parentId, newNode) ==
  LET one(node) ==
        IF node.id = parentId THEN WithNewChild(node, newNode)
        ELSE IF HasChildren(node)
          THEN [node EXCEPT
                  !.children = addToParent(node.children, parentId, newNode)]
        ELSE node
  IN  Map(nodes, one)

RECURSIVE removeTestCasesFromFolder(_, _, _)
removeTestCasesFromFolder(nodes, folderId, selectedTestCases) ==
  LET one(node) ==
        IF node.id = folderId /\ HasChildren(node)
          THEN [node EXCEPT
                  !.children =
                     Filter(node.children,
                            LAMBDA child :
                              ~(child.type = "test"
                                  /\ SomeId(selectedTestCases, child.id)))]
        ELSE IF HasChildren(node)
          THEN [node EXCEPT
                  !.children = removeTestCasesFromFolder(node.children, folderId,
                                                         selectedTestCases)]
        ELSE node
  IN  Map(nodes, one)

RECURSIVE removeFoldersById(_, _)
removeFoldersById(nodes, selectedFolders) ==
  LET kept == Filter(nodes,
                     LAMBDA node : ~(node.type = "folder"
                                       /\ SomeId(selectedFolders, node.id)))
      one(node) ==
        IF HasChildren(node)
          THEN [node EXCEPT
                  !.children = removeFoldersById(node.children, selectedFolders)]
          ELSE node
  IN  Map(kept, one)

\* Pre-order list of every node of the tree.
RECURSIVE Flatten(_)
Flatten(nodes) ==
  IF Len(nodes) = 0 THEN <<>>
  ELSE LET node == Head(nodes)
       IN  <<node>>
           \o (IF HasChildren(node) THEN Flatten(node.children) ELSE <<>>)
           \o Flatten(Tail(nodes))

AllNodes(nodes) ==
  LET flat == Flatten(nodes) IN { flat[i] : i \in 1..Len(flat) }
NodeIds(nodes) == { node.id : node \in AllNodes(nodes) }
IdsOfType(nodes, type) == { node.id : node \in { n \in AllNodes(nodes) : n.type = type } }

(***************************************************************************)
(* Strings.  A string is a TLA+ string; the operators below are the        *)
(* String.prototype and Array.prototype methods the action library and the *)
(* step input call, over letters, the space and the tab.                   *)
(***************************************************************************)
CharAt(s, i) == SubSeq(s, i, i)

UpperCaseLetters == "ABCDEFGHIJKLMNOPQRSTUVWXYZ"
LowerCaseLetters == "abcdefghijklmnopqrstuvwxyz"
WhiteSpace == {" ", "\t"}

LowerCaseOf ==
  [c \in {CharAt(UpperCaseLetters, i) : i \in 1..26} |->
     CharAt(LowerCaseLetters,
            CHOOSE i \in 1..26 : CharAt(UpperCaseLetters, i) = c)]

LetterRank ==
  [c \in {CharAt(LowerCaseLetters, i) : i \in 1..26} |->
     CHOOSE i \in 1..26 : CharAt(LowerCaseLetters, i) = c]

\* String.prototype.toLowerCase, character by character; the string is
\* lower-cased by halves.
RECURSIVE toLowerCase(_)
toLowerCase(s) ==
  IF Len(s) = 0 THEN ""
  ELSE IF Len(s) = 1
    THEN (IF s \in DOMAIN LowerCaseOf THEN LowerCaseOf[s] ELSE s)
  ELSE LET half == Len(s) \div 2
       IN  toLowerCase(SubSeq(s, 1, half))
             \o toLowerCase(SubSeq(s, half + 1, Len(s)))

\* String.prototype.trim
RECURSIVE trim(_)
trim(s) ==
  IF Len(s) = 0 THEN ""
  ELSE IF CharAt(s, 1) \in WhiteSpace THEN trim(SubSeq(s, 2, Len(s)))
  ELSE IF CharAt(s, Len(s)) \in WhiteSpace THEN trim(SubSeq(s, 1, Len(s) - 1))
  ELSE s

\* String.prototype.includes
includes(s, searchString) ==
  \E i \in 0..(Len(s) - Len(searchString)) :
    SubSeq(s, i + 1, i + Len(searchString)) = searchString

\* String.prototype.startsWith
startsWith(s, searchString) ==
  /\ Len(searchString) <= Len(s)
  /\ SubSeq(s, 1, Len(searchString)) = searchString

\* String.prototype.substring, both indexes clamped to the length
substring(s, start, end) ==
  LET from == IF start < Len(s) THEN start ELSE Len(s)
      to == IF end < Len(s) THEN end ELSE Len(s)
  IN  SubSeq(s, from + 1, to)

\* Array.prototype.join
RECURSIVE join(_, _)
join(words, separator) ==
  IF Len(words) = 0 THEN ""
  ELSE IF Len(words) = 1 THEN words[1]
  ELSE words[1] \o separator \o join(Tail(words), separator)

\* String.prototype.split with a one-character separator
RECURSIVE split(_, _)
split(s, separator) ==
  IF \E i \in 1..Len(s) : CharAt(s, i) = separator
    THEN LET first == CHOOSE i \in 1..Len(s) :
                        /\ CharAt(s, i) = separator
                        /\ \A j \in 1..(i - 1) : CharAt(s, j) # separator
         IN  <<SubSeq(s, 1, first - 1)>>
               \o split(SubSeq(s, first + 1, Len(s)), separator)
    ELSE <<s>>

\* Array.prototype.slice(0, end)
slice(items, end) == SubSeq(items, 1, IF end < Len(items) THEN end ELSE Len(items))

\* The two levels of String.prototype.localeCompare on letters: first the
\* letters regardless of case, then, for strings with the same letters, the
\* case at the first difference, lower case first.
compareLetters(a, b) ==
  LET la == toLowerCase(a)
      lb == toLowerCase(b)
      shorter == IF Len(a) < Len(b) THEN Len(a) ELSE Len(b)
      differ == { i \in 1..shorter : CharAt(la, i) # CharAt(lb, i) }
  IN  IF differ = {}
        THEN (IF Len(a) < Len(b) THEN -1 ELSE IF Len(a) > Len(b) THEN 1 ELSE 0)
        ELSE LET first == CHOOSE i \in differ : \A j \in differ : i <= j
             IN  IF LetterRank[CharAt(la, first)] < LetterRank[CharAt(lb, first)]
                   THEN -1 ELSE 1

\* for strings with the same letters
compareCase(a, b) ==
  LET differ == { i \in 1..Len(a) : CharAt(a, i) # CharAt(b, i) }
  IN  IF differ = {} THEN 0
      ELSE LET first == CHOOSE i \in differ : \A j \in differ : i <= j
           IN  IF CharAt(b, first) \in DOMAIN LowerCaseOf THEN -1 ELSE 1

\* Comparison by UTF-16 code units (what < on strings does) in place of
\* localeCompare: every upper-case letter before every lower-case letter.
localeCompareCodeUnits(a, b) ==
  LET unit(c) == IF c \in DOMAIN LowerCaseOf
                   THEN LetterRank[LowerCaseOf[c]]
                   ELSE 26 + LetterRank[c]
      shorter == IF Len(a) < Len(b) THEN Len(a) ELSE Len(b)
      differ == { i \in 1..shorter : CharAt(a, i) # CharAt(b, i) }
  IN  IF differ = {}
        THEN (IF Len(a) < Len(b) THEN -1 ELSE IF Len(a) > Len(b) THEN 1 ELSE 0)
        ELSE LET first == CHOOSE i \in differ : \A j \in differ : i <= j
             IN  IF unit(CharAt(a, first)) < unit(CharAt(b, first))
                   THEN -1 ELSE 1

\* String.prototype.localeCompare on names (letters only)
localeCompare(a, b) ==
  LET letters == compareLetters(a, b)
  IN  IF letters # 0 THEN letters ELSE compareCase(a, b)

\* Array.prototype.sort(compareFn), stable: an element comes behind exactly
\* the elements that compare before it and the elements that compare
\* equal to it and stood before it.
sort(items, compareFn(_, _)) ==
  LET n == Len(items)
      before(j, i) == LET order == compareFn(items[j], items[i])
                      IN  order < 0 \/ (order = 0 /\ j < i)
      place == SubSeq([i \in 1..n |->
                         Cardinality({j \in 1..n : before(j, i)}) + 1], 1, n)
      from == SubSeq([k \in 1..n |-> CHOOSE i \in 1..n : place[i] = k], 1, n)
  IN  SubSeq([k \in 1..n |-> items[from[k]]], 1, n)

(***************************************************************************)
(* Action library (ActionLibrary: TEST_ACTIONS, PAGE_OBJECTS and the two   *)
(* suggestion functions)                                                   *)
(***************************************************************************)
TEST_ACTIONS ==
  <<
    [name |-> "navigate", description |-> "Navigate to a URL",
     syntax |-> "navigate {url}", category |-> "navigation",
     parameters |-> <<"url">>],
    [name |-> "back", description |-> "Go back in browser history",
     syntax |-> "back", category |-> "navigation"],
    [name |-> "forward", description |-> "Go forward in browser history",
     syntax |-> "forward", category |-> "navigation"],
    [name |-> "refresh", description |-> "Refresh the current page",
     syntax |-> "refresh", category |-> "navigation"],
    [name |-> "click", description |-> "Click on an element",
     syntax |-> "click {element}", category |-> "interaction",
     parameters |-> <<"element">>],
    [name |-> "type", description |-> "Type text into an input field",
     syntax |-> "type {element} \"{text}\"", category |-> "interaction",
     parameters |-> <<"element", "text">>],
    [name |-> "clear", description |-> "Clear text from an input field",
     syntax |-> "clear {element}", category |-> "interaction",
     parameters |-> <<"element">>],
    [name |-> "select", description |-> "Select an option from dropdown",
     syntax |-> "select {element} \"{option}\"", category |-> "interaction",
     parameters |-> <<"element", "option">>],
    [name |-> "hover", description |-> "Hover over an element",
     syntax |-> "hover {element}", category |-> "interaction",
     parameters |-> <<"element">>],
    [name |-> "drag", description |-> "Drag element to target",
     syntax |-> "drag {source} {target}", category |-> "interaction",
     parameters |-> <<"source", "target">>],
    [name |-> "scroll", description |-> "Scroll to an element",
     syntax |-> "scroll {element}", category |-> "interaction",
     parameters |-> <<"element">>],
    [name |-> "assert", description |-> "Assert element is visible",
     syntax |-> "assert {element} visible", category |-> "assertion",
     parameters |-> <<"element", "condition">>],
    [name |-> "verify", description |-> "Verify text content",
     syntax |-> "verify {element} contains \"{text}\"", category |-> "assertion",
     parameters |-> <<"element", "text">>],
    [name |-> "assertText", description |-> "Assert exact text match",
     syntax |-> "assertText {element} \"{text}\"", category |-> "assertion",
     parameters |-> <<"element", "text">>],
    [name |-> "assertUrl", description |-> "Assert current URL",
     syntax |-> "assertUrl \"{url}\"", category |-> "assertion",
     parameters |-> <<"url">>],
    [name |-> "waitFor", description |-> "Wait for element to appear",
     syntax |-> "waitFor {element}", category |-> "wait",
     parameters |-> <<"element">>],
    [name |-> "waitForText", description |-> "Wait for text to appear",
     syntax |-> "waitForText {element} \"{text}\"", category |-> "wait",
     parameters |-> <<"element", "text">>],
    [name |-> "sleep", description |-> "Wait for specified time",
     syntax |-> "sleep {milliseconds}", category |-> "wait",
     parameters |-> <<"milliseconds">>],
    [name |-> "screenshot", description |-> "Take a screenshot",
     syntax |-> "screenshot \"{name}\"", category |-> "utility",
     parameters |-> <<"name">>],
    [name |-> "launch", description |-> "Launch browser",
     syntax |-> "launch {browser}", category |-> "utility",
     parameters |-> <<"browser">>],
    [name |-> "close", description |-> "Close browser",
     syntax |-> "close", category |-> "utility"]
  >>

PAGE_OBJECTS ==
  <<
    "loginButton", "emailInput", "passwordInput", "submitButton",
    "cancelButton", "usernameField", "confirmPasswordField",
    "rememberMeCheckbox", "forgotPasswordLink", "headerMenu", "footerMenu",
    "navigationBar", "breadcrumbs", "sidebarMenu", "homeLink",
    "profileLink", "settingsLink", "logoutLink", "searchBox",
    "searchButton", "filterDropdown", "sortDropdown", "paginationNext",
    "paginationPrevious", "itemsList", "tableRows", "cardContainer",
    "shoppingCart", "addToCartButton", "buyNowButton", "quantityInput",
    "priceDisplay", "checkoutButton", "paymentForm", "shippingForm",
    "firstNameInput", "lastNameInput", "phoneInput", "addressInput",
    "cityInput", "stateDropdown", "zipCodeInput", "countryDropdown",
    "datePickerInput", "modal", "dialog", "confirmDialog", "alertDialog",
    "closeModalButton", "modalTitle", "modalContent", "modalActions"
  >>

TopCount == 10   \* slice(0, 10)

\* getActionSuggestions that does not trim the input.
getActionSuggestionsNoTrim(input) ==
  LET normalizedInput == toLowerCase(input)
      compareFn(a, b) ==
        LET aExact == startsWith(toLowerCase(a.name), normalizedInput)
            bExact == startsWith(toLowerCase(b.name), normalizedInput)
        IN  IF aExact /\ ~bExact THEN -1
            ELSE IF ~aExact /\ bExact THEN 1
            ELSE localeCompare(a.name, b.name)
  IN  IF normalizedInput = "" THEN slice(TEST_ACTIONS, TopCount)
      ELSE sort(Filter(TEST_ACTIONS,
                       LAMBDA action :
                         \/ includes(toLowerCase(action.name), normalizedInput)
                         \/ includes(toLowerCase(action.description),
                                     normalizedInput)),
                compareFn)

\* getActionSuggestions that does not lower-case the input.
getActionSuggestionsCaseSensitive(input) ==
  LET normalizedInput == trim(input)
      compareFn(a, b) ==
        LET aExact == startsWith(toLowerCase(a.name), normalizedInput)
            bExact == startsWith(toLowerCase(b.name), normalizedInput)
        IN  IF aExact /\ ~bExact THEN -1
            ELSE IF ~aExact /\ bExact THEN 1
            ELSE localeCompare(a.name, b.name)
  IN  IF normalizedInput = "" THEN slice(TEST_ACTIONS, TopCount)
      ELSE sort(Filter(TEST_ACTIONS,
                       LAMBDA action :
                         \/ includes(toLowerCase(action.name), normalizedInput)
                         \/ includes(toLowerCase(action.description),
                                     normalizedInput)),
                compareFn)

\* getActionSuggestions that truncates every result to the first 10.
getActionSuggestionsTopTen(input) ==
  LET normalizedInput == trim(toLowerCase(input))
      compareFn(a, b) ==
        LET aExact == startsWith(toLowerCase(a.name), normalizedInput)
            bExact == startsWith(toLowerCase(b.name), normalizedInput)
        IN  IF aExact /\ ~bExact THEN -1
            ELSE IF ~aExact /\ bExact THEN 1
            ELSE localeCompare(a.name, b.name)
  IN  IF normalizedInput = "" THEN slice(TEST_ACTIONS, TopCount)
      ELSE slice(sort(Filter(TEST_ACTIONS,
                       LAMBDA action :
                         \/ includes(toLowerCase(action.name), normalizedInput)
                         \/ includes(toLowerCase(action.description),
                                     normalizedInput)),
                      compareFn), TopCount)

\* getActionSuggestions that sorts by name only, without the priority of
\* the names that start with the input.
getActionSuggestionsByNameOnly(input) ==
  LET normalizedInput == trim(toLowerCase(input))
      compareFn(a, b) == localeCompare(a.name, b.name)
  IN  IF normalizedInput = "" THEN slice(TEST_ACTIONS, TopCount)
      ELSE sort(Filter(TEST_ACTIONS,
                       LAMBDA action :
                         \/ includes(toLowerCase(action.name), normalizedInput)
                         \/ includes(toLowerCase(action.description),
                                     normalizedInput)),
                compareFn)

\* getActionSuggestions
getActionSuggestions(input) ==
  LET normalizedInput == trim(toLowerCase(input))
      compareFn(a, b) ==
        LET aExact == startsWith(toLowerCase(a.name), normalizedInput)
            bExact == startsWith(toLowerCase(b.name), normalizedInput)
        IN  IF aExact /\ ~bExact THEN -1
            ELSE IF ~aExact /\ bExact THEN 1
            ELSE localeCompare(a.name, b.name)
  IN  IF normalizedInput = "" THEN slice(TEST_ACTIONS, TopCount)
      ELSE sort(Filter(TEST_ACTIONS,
                       LAMBDA action :
                         \/ includes(toLowerCase(action.name), normalizedInput)
                         \/ includes(toLowerCase(action.description),
                                     normalizedInput)),
                compareFn)

\* getObjectSuggestions
getObjectSuggestions(input) ==
  LET normalizedInput == trim(toLowerCase(input))
      compareFn(a, b) ==
        LET aExact == startsWith(toLowerCase(a), normalizedInput)
            bExact == startsWith(toLowerCase(b), normalizedInput)
        IN  IF aExact /\ ~bExact THEN -1
            ELSE IF ~aExact /\ bExact THEN 1
            ELSE localeCompare(a, b)
  IN  IF normalizedInput = "" THEN slice(PAGE_OBJECTS, TopCount)
      ELSE sort(Filter(PAGE_OBJECTS,
                       LAMBDA obj : includes(toLowerCase(obj), normalizedInput)),
                compareFn)

(***************************************************************************)
(* Handlers                                                                *)
(***************************************************************************)
\* Names typed into the create dialogs; the blank ones trim to "".
NameInputs == {"", " ", "New"}
Trim(name) == IF name \in {"", " "} THEN "" ELSE name

NoRecording == UNCHANGED <<tree0, calls>>

\* The pages beside the explorer and the step input, after mounting: the
\* useState initial values and the module-level arrays.
InitialTestSets ==
  << [id |-> "set1", name |-> "Authentication Tests", selected |-> FALSE,
      testCases |-> << [id |-> "tc1", name |-> "Login Flow Test",
                        selected |-> FALSE],
                       [id |-> "tc2", name |-> "Registration Flow",
                        selected |-> FALSE],
                       [id |-> "tc3", name |-> "Password Reset",
                        selected |-> FALSE] >>],
     [id |-> "set2", name |-> "Shopping Cart Tests", selected |-> FALSE,
      testCases |-> << [id |-> "tc4", name |-> "Add to Cart",
                        selected |-> FALSE],
                       [id |-> "tc5", name |-> "Remove from Cart",
                        selected |-> FALSE],
                       [id |-> "tc6", name |-> "Checkout Process",
                        selected |-> FALSE] >>] >>

InitialSteps ==
  << [id |-> "1", stepNumber |-> 1, action |-> "Launch", object |-> "Browser",
      parameters |-> "\"Chrome\"", status |-> "passed"],
     [id |-> "2", stepNumber |-> 2, action |-> "Navigate", object |-> "URL",
      parameters |-> "\"https://app.example.com/login\"",
      status |-> "passed"],
     [id |-> "3", stepNumber |-> 3, action |-> "Input",
      object |-> "UsernameField",
      parameters |-> "\"testuser@example.com\"", status |-> "failed"],
     [id |-> "4", stepNumber |-> 4, action |-> "Input",
      object |-> "PasswordField", parameters |-> "\"password123\"",
      status |-> "pending"],
     [id |-> "5", stepNumber |-> 5, action |-> "Click",
      object |-> "LoginButton", parameters |-> "", status |-> "pending"] >>

InitialEnhancedSteps ==
  << [id |-> "step-1", content |-> "launch chrome"],
     [id |-> "step-2", content |-> "navigate \"https://app.example.com/login\""],
     [id |-> "step-3", content |-> "type emailInput \"testuser@example.com\""],
     [id |-> "step-4", content |-> "type passwordInput \"password123\""],
     [id |-> "step-5", content |-> "click loginButton"],
     [id |-> "step-6", content |-> "waitFor userProfile"],
     [id |-> "step-7", content |-> "assert userProfile visible"] >>

InitialEditor ==
  [testCaseName |-> "New Test Case",
   steps |-> << [id |-> "step-1", content |-> ""] >>,
   focusedStepId |-> "step-1",
   hasUnsavedChanges |-> FALSE,
   isSaving |-> FALSE]

InitialExecutions ==
  << [id |-> "exec-1", testCaseId |-> "tc-1", status |-> "passed"] >>

InitialLibrary ==
  [TEST_ACTIONS |-> TEST_ACTIONS, PAGE_OBJECTS |-> PAGE_OBJECTS]

PagesIdle ==
  /\ library = InitialLibrary
  /\ pendingUpdates = <<>>
  /\ enhancedSteps = InitialEnhancedSteps
  /\ focusedStepId = "null"
  /\ testSets = InitialTestSets
  /\ steps = InitialSteps
  /\ editor = InitialEditor
  /\ mockExecutions = InitialExecutions
  /\ tasks = <<>>

NoPages ==
  UNCHANGED <<library, pendingUpdates, enhancedSteps, focusedStepId,
              testSets, steps, editor,
              mockExecutions, tasks>>

\* The explorer does not touch the step input, its suggestion popover or
\* the other pages.
NoEditing ==
  /\ UNCHANGED <<value, selectionStart, showSuggestions, suggestionType,
                 searchTerm, cursorPosition, suggestions, selectedIndex>>
  /\ NoPages

\* The step input and its popover after mounting: the useState initial
\* values, and the popover's effect run once on them.
EditorIdle ==
  /\ value = ""
  /\ selectionStart = 0
  /\ showSuggestions = FALSE
  /\ suggestionType = "action"
  /\ searchTerm = ""
  /\ cursorPosition = 0
  /\ suggestions = getActionSuggestions("")
  /\ selectedIndex = 0

handleCheckboxChange(nodeId, checked) ==
  /\ treeData' = updateNodeSelection(treeData, nodeId, checked)
  /\ UNCHANGED now
  /\ NoRecording
  /\ NoEditing

createNewFolder(parentFolderId, newFolderName) ==
  /\ now < MaxCreated
  /\ IF Trim(newFolderName) = ""
       THEN UNCHANGED <<treeData, now>>
       ELSE LET newFolder ==
                  FolderNode("folder-" \o ToString(now), newFolderName, FALSE,
                             <<>>)
            IN  /\ treeData' = addToParent(treeData, parentFolderId, newFolder)
                /\ now' = now + 1
  /\ NoRecording
  /\ NoEditing

createNewTestCase(parentFolderId, newTestCaseName) ==
  /\ now < MaxCreated
  /\ IF Trim(newTestCaseName) = ""
       THEN UNCHANGED <<treeData, now>>
       ELSE LET newTestCase ==
                  TestNode("test-" \o ToString(now), newTestCaseName)
            IN  /\ treeData' = addToParent(treeData, parentFolderId, newTestCase)
                /\ now' = now + 1
  /\ NoRecording
  /\ NoEditing

createNewProject(newProjectName) ==
  /\ now < MaxCreated
  /\ IF Trim(newProjectName) = ""
       THEN UNCHANGED <<treeData, now>>
       ELSE LET newProject ==
                  ProjectNode("project-" \o ToString(now), newProjectName, <<>>)
            IN  /\ treeData' = Append(treeData, newProject)
                /\ now' = now + 1
  /\ NoRecording
  /\ NoEditing

\* handleDeleteTestCasesInFolder opens the confirmation only when the folder
\* has a selected test case; deleteSelectedTestCasesInFolder then runs with
\* that folder as currentFolderForTestDeletion.
deleteSelectedTestCasesInFolder(currentFolderForTestDeletion) ==
  /\ Len(getSelectedTestCasesInFolder(treeData, currentFolderForTestDeletion)) > 0
  /\ LET selectedTestCases ==
           getSelectedTestCasesInFolder(treeData, currentFolderForTestDeletion)
     IN  treeData' = removeTestCasesFromFolder(treeData,
                                               currentFolderForTestDeletion,
                                               selectedTestCases)
  /\ UNCHANGED now
  /\ NoRecording
  /\ NoEditing

deleteSelectedFolders ==
  /\ LET selectedFolders == getSelectedFolders(treeData)
     IN  /\ Len(selectedFolders) > 0
         /\ treeData' = removeFoldersById(treeData, selectedFolders)
  /\ UNCHANGED now
  /\ NoRecording
  /\ NoEditing

deleteSelectedProjects ==
  /\ LET selectedProjects == getSelectedProjects(treeData)
     IN  /\ Len(selectedProjects) > 0
         /\ treeData' =
              Filter(treeData,
                     LAMBDA node : ~(node.type = "project"
                                       /\ SomeId(selectedProjects, node.id)))
  /\ UNCHANGED now
  /\ NoRecording
  /\ NoEditing

Init ==
  /\ treeData = InitialTree
  /\ now = 0
  /\ tree0 = InitialTree
  /\ calls = <<>>
  /\ EditorIdle
  /\ PagesIdle

Next ==
  \/ \E nodeId \in NodeIds(treeData) \cup {"nonexistent"}, checked \in BOOLEAN :
       handleCheckboxChange(nodeId, checked)
  \/ \E parentFolderId \in IdsOfType(treeData, "project"), name \in NameInputs :
       createNewFolder(parentFolderId, name)
  \/ \E parentFolderId \in IdsOfType(treeData, "folder"), name \in NameInputs :
       createNewTestCase(parentFolderId, name)
  \/ \E name \in NameInputs : createNewProject(name)
  \/ \E folderId \in IdsOfType(treeData, "folder") :
       deleteSelectedTestCasesInFolder(folderId)
  \/ (IdsOfType(treeData, "project") # {} /\ deleteSelectedFolders)
  \/ deleteSelectedProjects

Spec == Init /\ [][Next]_vars


(***************************************************************************)
(* setNodeSelected as a function of its inputs: a recorded sequence of     *)
(* handleCheckboxChange calls applied to a starting tree.                  *)
(***************************************************************************)
\* The scenario tree Project P -> Folder F -> [Test A, Test B].
TreePFAB ==
  << ProjectNode("P", "P",
       << FolderNode("F", "F", TRUE,
            << TestNode("A", "A"), TestNode("B", "B") >>) >> ) >>

\* The initial tree after createNewFolder on the project: an empty folder.
TreeWithEmptyFolder ==
  addToParent(InitialTree, "1", FolderNode("folder-0", "New", FALSE, <<>>))

SampleTrees == {InitialTree, TreePFAB, TreeWithEmptyFolder}

Call(nodeId, checked) == [nodeId |-> nodeId, checked |-> checked]

setNodeSelected(nodeId, checked) ==
  /\ Len(calls) < MaxCalls
  /\ treeData' = updateNodeSelection(treeData, nodeId, checked)
  /\ calls' = Append(calls, Call(nodeId, checked))
  /\ UNCHANGED <<now, tree0>>
  /\ NoEditing

InitCalls ==
  /\ tree0 \in SampleTrees
  /\ treeData = tree0
  /\ now = 0
  /\ calls = <<>>
  /\ EditorIdle
  /\ PagesIdle

NextCalls ==
  \E nodeId \in NodeIds(treeData) \cup {"nonexistent"}, checked \in BOOLEAN :
    setNodeSelected(nodeId, checked)

SpecCalls == InitCalls /\ [][NextCalls]_vars

(***************************************************************************)
(* toggleExpanded as a function of its inputs: a recorded sequence of      *)
(* toggles applied to a starting tree, with and without selected nodes.    *)
(***************************************************************************)
ExpandTrees ==
  SampleTrees \cup { updateNodeSelection(InitialTree, "3", TRUE),
                     updateNodeSelection(TreePFAB, "F", TRUE) }

Toggle(nodeId) == [nodeId |-> nodeId, op |-> "toggleExpanded"]

toggleExpanded(nodeId) ==
  /\ Len(calls) < MaxCalls
  /\ treeData' = updateNode(treeData, nodeId)
  /\ calls' = Append(calls, Toggle(nodeId))
  /\ UNCHANGED <<now, tree0>>
  /\ NoEditing

InitExpand ==
  /\ tree0 \in ExpandTrees
  /\ treeData = tree0
  /\ now = 0
  /\ calls = <<>>
  /\ EditorIdle
  /\ PagesIdle

NextExpand ==
  \E nodeId \in NodeIds(treeData) \cup {"nonexistent"} : toggleExpanded(nodeId)

SpecExpand == InitExpand /\ [][NextExpand]_vars

(***************************************************************************)
(* The suggestion functions as functions of their input: SuggestionPopover *)
(* with its searchTerm and suggestionType props drawn from bounded sets.   *)
(* Its effect runs on mount and whenever one of the two props changes.     *)
(***************************************************************************)
QuerySeeds ==
  { " Click ", " CLICK", "click", "assertText", "ASSERT", "waitFor", "Wait for",
    "an element", "Button", "BUTTON", "add", "ADD", "Input", "modal", "MODAL",
    "url", "URL", "\t", "  ", "zz" }

Substrings(s) ==
  { SubSeq(s, i, j) : i \in 1..(Len(s) + 1), j \in 0..Len(s) }

Queries ==
  { q \in UNION { Substrings(seed) : seed \in QuerySeeds } :
      Len(q) <= MaxQueryLen }

SuggestionTypes == {"action", "object"}

\* useEffect(..., [searchTerm, suggestionType]) of SuggestionPopover, on
\* the props of the render that scheduled it.
popoverEffect(newSearchTerm, newSuggestionType) ==
  /\ suggestions' = IF newSuggestionType = "action"
                      THEN getActionSuggestions(newSearchTerm)
                      ELSE getObjectSuggestions(newSearchTerm)
  /\ selectedIndex' = 0

\* The parent renders the popover with another searchTerm or suggestionType.
renderPopover(newSearchTerm, newSuggestionType) ==
  /\ <<newSearchTerm, newSuggestionType>> # <<searchTerm, suggestionType>>
  /\ searchTerm' = newSearchTerm
  /\ suggestionType' = newSuggestionType
  /\ popoverEffect(newSearchTerm, newSuggestionType)
  /\ UNCHANGED <<treeData, now, tree0, calls, value, selectionStart,
                 showSuggestions, cursorPosition>>
  /\ NoPages

InitSuggest ==
  /\ treeData = InitialTree
  /\ tree0 = treeData
  /\ now = 0
  /\ calls = <<>>
  /\ value = ""
  /\ selectionStart = 0
  /\ showSuggestions = FALSE
  /\ cursorPosition = 0
  /\ searchTerm \in Queries
  /\ suggestionType \in SuggestionTypes
  /\ suggestions = IF suggestionType = "action"
                     THEN getActionSuggestions(searchTerm)
                     ELSE getObjectSuggestions(searchTerm)
  /\ selectedIndex = 0
  /\ PagesIdle

NextSuggest ==
  \E newSearchTerm \in {searchTerm, toLowerCase(searchTerm), trim(searchTerm)},
     newSuggestionType \in SuggestionTypes :
    renderPopover(newSearchTerm, newSuggestionType)

SpecSuggest == InitSuggest /\ [][NextSuggest]_vars

(***************************************************************************)
(* TestStepInput: one step's text input with its suggestion popover.  The  *)
(* input is controlled, so the value prop is the text of the input         *)
(* element whenever a handler runs.  calls holds the last call of          *)
(* triggerSuggestions with the value and the selection it ran on.          *)
(***************************************************************************)
MaxValueLen == 4  \* length of the text of a step

MaxPick == 1  \* items of the popover that are picked

StepSeeds == { "cl loginButton", "  x", "\t go" }

StepValues ==
  UNION { { SubSeq(seed, 1, n) :
              n \in 0..(IF Len(seed) < MaxValueLen
                          THEN Len(seed) ELSE MaxValueLen) } :
          seed \in StepSeeds }

Triggered(text, cursorPos) ==
  [op |-> "triggerSuggestions", value |-> text, selectionStart |-> cursorPos]

NoExplorer == UNCHANGED <<treeData, now, tree0>> /\ NoPages

\* <Input onChange={(e) => onChange(e.target.value)}>: the parent stores
\* the text and renders the input with it; the caret is where the edit
\* left it.  A move of the caret alone is the case newValue = value.
onChange(newValue, newSelectionStart) ==
  /\ value' = newValue
  /\ selectionStart' = newSelectionStart
  /\ UNCHANGED <<showSuggestions, suggestionType, searchTerm, cursorPosition,
                 suggestions, selectedIndex, calls>>
  /\ NoExplorer

\* <Popover open={isOpen} onOpenChange={setShowSuggestions}>
onOpenChange(open) ==
  /\ showSuggestions' = open
  /\ UNCHANGED <<value, selectionStart, suggestionType, searchTerm,
                 cursorPosition, suggestions, selectedIndex, calls>>
  /\ NoExplorer

\* triggerSuggestions that classifies by the number of words alone.
triggerSuggestionsByWordCount ==
  LET cursorPos == selectionStart
      textBeforeCursor == substring(value, 0, cursorPos)
      words == split(textBeforeCursor, " ")
      currentWord == words[Len(words)]
      newSuggestionType == IF Len(words) = 1 THEN "action" ELSE "object"
  IN  /\ suggestionType' = newSuggestionType
      /\ searchTerm' = currentWord
      /\ cursorPosition' = cursorPos
      /\ showSuggestions' = TRUE
      /\ IF <<currentWord, newSuggestionType>> # <<searchTerm, suggestionType>>
           THEN popoverEffect(currentWord, newSuggestionType)
           ELSE UNCHANGED <<suggestions, selectedIndex>>
      /\ calls' = <<Triggered(value, cursorPos)>>
      /\ UNCHANGED <<value, selectionStart>>
      /\ NoExplorer

\* triggerSuggestions (Ctrl+Space), and the popover's effect when the
\* render that follows hands it another searchTerm or suggestionType.
triggerSuggestions ==
  LET cursorPos == selectionStart
      textBeforeCursor == substring(value, 0, cursorPos)
      words == split(textBeforeCursor, " ")
      currentWord == words[Len(words)]
      newSuggestionType ==
        IF Len(words) = 1 \/ trim(textBeforeCursor) = ""
          THEN "action" ELSE "object"
  IN  /\ suggestionType' = newSuggestionType
      /\ searchTerm' = currentWord
      /\ cursorPosition' = cursorPos
      /\ showSuggestions' = TRUE
      /\ IF <<currentWord, newSuggestionType>> # <<searchTerm, suggestionType>>
           THEN popoverEffect(currentWord, newSuggestionType)
           ELSE UNCHANGED <<suggestions, selectedIndex>>
      /\ calls' = <<Triggered(value, cursorPos)>>
      /\ UNCHANGED <<value, selectionStart>>
      /\ NoExplorer

\* handleSuggestionSelect, with the setTimeout callback that puts the
\* caret behind the inserted suggestion once the parent has rendered the
\* new value.
handleSuggestionSelect(suggestion) ==
  LET cursorPos == cursorPosition
      textBeforeCursor == substring(value, 0, cursorPos)
      textAfterCursor == substring(value, cursorPos, Len(value))
      words == split(textBeforeCursor, " ")
      newWords == [words EXCEPT ![Len(words)] = suggestion]
      newTextBefore == join(newWords, " ")
      newValue == newTextBefore \o textAfterCursor
  IN  /\ value' = newValue
      /\ showSuggestions' = FALSE
      /\ selectionStart' = Len(newTextBefore)
      /\ UNCHANGED <<suggestionType, searchTerm, cursorPosition, suggestions,
                     selectedIndex, calls>>
      /\ NoExplorer

\* SuggestionPopover: Enter on the highlighted item or a click on any item
\* of the open popover; onSelect gets the syntax of an action and the
\* name of an object (the list holds actions exactly when suggestionType
\* is 'action').  Only a step text of at most MaxValueLen characters is
\* extended, and only one of the first MaxPick items is taken.
selectSuggestion(index) ==
  /\ showSuggestions
  /\ Len(value) <= MaxValueLen
  /\ index \in 1..Len(suggestions)
  /\ index <= MaxPick
  /\ handleSuggestionSelect(IF suggestionType = "action"
                              THEN suggestions[index].syntax
                              ELSE suggestions[index])

InitEditor ==
  /\ treeData = InitialTree
  /\ tree0 = treeData
  /\ now = 0
  /\ calls = <<>>
  /\ value \in StepValues
  /\ selectionStart \in 0..Len(value)
  /\ showSuggestions = FALSE
  /\ suggestionType = "action"
  /\ searchTerm = ""
  /\ cursorPosition = 0
  /\ suggestions = getActionSuggestions("")
  /\ selectedIndex = 0
  /\ PagesIdle

NextEditor ==
  \/ \E newValue \in StepValues, newSelectionStart \in 0..MaxValueLen :
       /\ newSelectionStart <= Len(newValue)
       /\ onChange(newValue, newSelectionStart)
  \/ \E open \in BOOLEAN : onOpenChange(open)
  \/ triggerSuggestions
  \/ \E index \in 1..Len(suggestions) : selectSuggestion(index)

SpecEditor == InitEditor /\ [][NextEditor]_vars

(***************************************************************************)
(* SuggestionPopover under the keyboard: the popover of one step input,    *)
(* rendered by its parent with a few search terms, opened and closed, and  *)
(* driven with the keys its onKeyDown handles.                             *)
(***************************************************************************)
PopoverQueries == { "", "zz", "wait", "modal" }

PopoverKeys == { "ArrowDown", "ArrowUp", "Enter", "Escape" }

min(a, b) == IF a <= b THEN a ELSE b

max(a, b) == IF a >= b THEN a ELSE b

\* SuggestionPopover.handleKeyDown; `if (!isOpen) return` is the guard.
\* suggestions[selectedIndex] is undefined, so falsy, outside the list,
\* and every item of a list is truthy.  Enter extends only a step text of
\* at most MaxValueLen characters.
handleKeyDown(key) ==
  /\ showSuggestions
  /\ CASE key = "ArrowDown" ->
            /\ selectedIndex' = min(selectedIndex + 1, Len(suggestions) - 1)
            /\ UNCHANGED <<value, selectionStart, showSuggestions,
                           suggestionType, searchTerm, cursorPosition,
                           suggestions, calls>>
            /\ NoExplorer
       [] key = "ArrowUp" ->
            /\ selectedIndex' = max(selectedIndex - 1, 0)
            /\ UNCHANGED <<value, selectionStart, showSuggestions,
                           suggestionType, searchTerm, cursorPosition,
                           suggestions, calls>>
            /\ NoExplorer
       [] key = "Enter" ->
            /\ selectedIndex + 1 \in 1..Len(suggestions)
            /\ Len(value) <= MaxValueLen
            /\ handleSuggestionSelect(
                 IF suggestionType = "action"
                   THEN suggestions[selectedIndex + 1].syntax
                   ELSE suggestions[selectedIndex + 1])
       [] key = "Escape" -> onOpenChange(FALSE)

InitPopover ==
  /\ treeData = InitialTree
  /\ tree0 = treeData
  /\ now = 0
  /\ calls = <<>>
  /\ value = ""
  /\ selectionStart = 0
  /\ showSuggestions = FALSE
  /\ cursorPosition = 0
  /\ searchTerm \in PopoverQueries
  /\ suggestionType \in SuggestionTypes
  /\ suggestions = IF suggestionType = "action"
                     THEN getActionSuggestions(searchTerm)
                     ELSE getObjectSuggestions(searchTerm)
  /\ selectedIndex = 0
  /\ PagesIdle

NextPopover ==
  \/ \E newSearchTerm \in PopoverQueries,
        newSuggestionType \in SuggestionTypes :
       renderPopover(newSearchTerm, newSuggestionType)
  \/ \E open \in BOOLEAN : onOpenChange(open)
  \/ \E key \in PopoverKeys : handleKeyDown(key)

SpecPopover == InitPopover /\ [][NextPopover]_vars

(***************************************************************************)
(* The pages beside the explorer and the step input.  Each of the          *)
(* specifications below starts from Init, the state after mounting, and    *)
(* runs the handlers of one page; Background is what none of them touch.   *)
(***************************************************************************)
Background ==
  UNCHANGED <<treeData, tree0, value, selectionStart, showSuggestions,
              suggestionType, searchTerm, cursorPosition, suggestions,
              selectedIndex>>

(***************************************************************************)
(* The action library as arrays in memory.  TEST_ACTIONS and PAGE_OBJECTS  *)
(* are module-level arrays that every call reads; filter and slice return  *)
(* a new array, sort rearranges its receiver.  A call is modelled by the   *)
(* arrays it leaves behind and the array it returns, and calls records     *)
(* every call made with what it returned.                                  *)
(***************************************************************************)
MaxLibraryCalls == 3

LibraryQueries == { "", "c", "zz" }

\* a variant that sorts the catalog itself and filters the sorted catalog
getActionSuggestionsInSortingCatalog(arrays, input) ==
  LET normalizedInput == trim(toLowerCase(input))
      compareFn(a, b) ==
        LET aExact == startsWith(toLowerCase(a.name), normalizedInput)
            bExact == startsWith(toLowerCase(b.name), normalizedInput)
        IN  IF aExact /\ ~bExact THEN -1
            ELSE IF ~aExact /\ bExact THEN 1
            ELSE localeCompare(a.name, b.name)
  IN  IF normalizedInput = ""
        THEN [arrays |-> arrays,
              returned |-> slice(arrays.TEST_ACTIONS, TopCount)]
        ELSE LET sorted == sort(arrays.TEST_ACTIONS, compareFn)
             IN  [arrays |-> [arrays EXCEPT !.TEST_ACTIONS = sorted],
                  returned |->
                    Filter(sorted,
                           LAMBDA action :
                             \/ includes(toLowerCase(action.name),
                                         normalizedInput)
                             \/ includes(toLowerCase(action.description),
                                         normalizedInput))]

\* getActionSuggestions over the arrays in memory: slice(0, 10) copies, and
\* sort runs on the array filter has just made, which is the one returned.
getActionSuggestionsIn(arrays, input) ==
  LET normalizedInput == trim(toLowerCase(input))
      compareFn(a, b) ==
        LET aExact == startsWith(toLowerCase(a.name), normalizedInput)
            bExact == startsWith(toLowerCase(b.name), normalizedInput)
        IN  IF aExact /\ ~bExact THEN -1
            ELSE IF ~aExact /\ bExact THEN 1
            ELSE localeCompare(a.name, b.name)
  IN  IF normalizedInput = ""
        THEN [arrays |-> arrays,
              returned |-> slice(arrays.TEST_ACTIONS, TopCount)]
        ELSE LET filtered ==
                   Filter(arrays.TEST_ACTIONS,
                          LAMBDA action :
                            \/ includes(toLowerCase(action.name),
                                        normalizedInput)
                            \/ includes(toLowerCase(action.description),
                                        normalizedInput))
             IN  [arrays |-> arrays, returned |-> sort(filtered, compareFn)]

\* getObjectSuggestions over the arrays in memory
getObjectSuggestionsIn(arrays, input) ==
  LET normalizedInput == trim(toLowerCase(input))
      compareFn(a, b) ==
        LET aExact == startsWith(toLowerCase(a), normalizedInput)
            bExact == startsWith(toLowerCase(b), normalizedInput)
        IN  IF aExact /\ ~bExact THEN -1
            ELSE IF ~aExact /\ bExact THEN 1
            ELSE localeCompare(a, b)
  IN  IF normalizedInput = ""
        THEN [arrays |-> arrays,
              returned |-> slice(arrays.PAGE_OBJECTS, TopCount)]
        ELSE LET filtered ==
                   Filter(arrays.PAGE_OBJECTS,
                          LAMBDA obj : includes(toLowerCase(obj),
                                                normalizedInput))
             IN  [arrays |-> arrays, returned |-> sort(filtered, compareFn)]

Returned(op, input, outcome) ==
  [op |-> op, input |-> input, returned |-> outcome.returned]

LibraryFrame ==
  /\ Background
  /\ UNCHANGED <<now, pendingUpdates, enhancedSteps, focusedStepId,
              testSets, steps, editor,
                 mockExecutions, tasks>>

callGetActionSuggestions(input) ==
  /\ Len(calls) < MaxLibraryCalls
  /\ LET outcome == getActionSuggestionsIn(library, input)
     IN  /\ library' = outcome.arrays
         /\ calls' = Append(calls,
                            Returned("getActionSuggestions", input, outcome))
  /\ LibraryFrame

callGetObjectSuggestions(input) ==
  /\ Len(calls) < MaxLibraryCalls
  /\ LET outcome == getObjectSuggestionsIn(library, input)
     IN  /\ library' = outcome.arrays
         /\ calls' = Append(calls,
                            Returned("getObjectSuggestions", input, outcome))
  /\ LibraryFrame

NextLibrary ==
  \/ \E input \in LibraryQueries : callGetActionSuggestions(input)
  \/ \E input \in LibraryQueries : callGetObjectSuggestions(input)

SpecLibrary == Init /\ [][NextLibrary]_vars

(***************************************************************************)
(* setTreeData under React's batching.  A handler only queues its update;  *)
(* the updates queued since the last render are applied in order when the  *)
(* component renders next: an updater function to the state the earlier    *)
(* updates of the batch produced, a plain value by replacing that state.   *)
(* treeData is the rendered state, the one the handlers' closures see.     *)
(***************************************************************************)
MaxPending == 2

BatchNodes == { "2", "3" }

\* setTreeData(prevData => updateNodeSelection(prevData, nodeId, checked))
UpdaterFunction(nodeId, checked) ==
  [kind |-> "function", nodeId |-> nodeId, checked |-> checked, state |-> <<>>]

\* setTreeData(updateNode(treeData)): the argument is evaluated at the call
NextState(nodeId, state) ==
  [kind |-> "value", nodeId |-> nodeId, checked |-> FALSE, state |-> state]

RECURSIVE processUpdateQueue(_, _)
processUpdateQueue(state, queue) ==
  IF queue = <<>> THEN state
  ELSE LET update == Head(queue)
           newState == IF update.kind = "function"
                         THEN updateNodeSelection(state, update.nodeId,
                                                  update.checked)
                         ELSE update.state
       IN  processUpdateQueue(newState, Tail(queue))

BatchFrame ==
  /\ Background
  /\ UNCHANGED <<now, calls, library, enhancedSteps, focusedStepId,
              testSets, steps, editor,
                 mockExecutions, tasks>>

\* handleCheckboxChange before the render that applies it
queueCheckboxChange(nodeId, checked) ==
  /\ Len(pendingUpdates) < MaxPending
  /\ pendingUpdates' = Append(pendingUpdates, UpdaterFunction(nodeId, checked))
  /\ BatchFrame

\* toggleExpanded before the render that applies it
queueToggleExpanded(nodeId) ==
  /\ Len(pendingUpdates) < MaxPending
  /\ pendingUpdates' = Append(pendingUpdates,
                              NextState(nodeId, updateNode(treeData, nodeId)))
  /\ BatchFrame

render ==
  /\ pendingUpdates # <<>>
  /\ treeData' = processUpdateQueue(treeData, pendingUpdates)
  /\ pendingUpdates' = <<>>
  /\ UNCHANGED <<tree0, value, selectionStart, showSuggestions, suggestionType,
                 searchTerm, cursorPosition, suggestions, selectedIndex>>
  /\ UNCHANGED <<now, calls, library, enhancedSteps, focusedStepId,
              testSets, steps, editor,
                 mockExecutions, tasks>>

NextBatch ==
  \/ \E nodeId \in BatchNodes, checked \in BOOLEAN :
       queueCheckboxChange(nodeId, checked)
  \/ \E nodeId \in BatchNodes : queueToggleExpanded(nodeId)
  \/ render

SpecBatch == Init /\ [][NextBatch]_vars

(***************************************************************************)
(* TestStepsContainer: the list of steps of the enhanced view, held by the *)
(* parent page in enhancedSteps and changed through onStepsChange.  The    *)
(* callbacks are rebuilt on every render (useCallback on steps), so each   *)
(* handler runs on the list on screen.                                     *)
(***************************************************************************)
MaxInitialSteps == 3   \* steps of the initial list still in the list

MaxAdded == 2          \* steps created

\* Array.prototype.findIndex on the id, 0-based, -1 when there is none
findIndex(list, stepId) ==
  IF \E i \in 1..Len(list) : list[i].id = stepId
    THEN (CHOOSE i \in 1..Len(list) :
            /\ list[i].id = stepId
            /\ \A j \in 1..(i - 1) : list[j].id # stepId) - 1
    ELSE -1

\* Array.prototype.splice(insertIndex, 0, item) on a copy
splice(list, insertIndex, item) ==
  LET at == min(insertIndex, Len(list))
  IN  SubSeq(list, 1, at) \o <<item>> \o SubSeq(list, at + 1, Len(list))

\* Date.now() counts milliseconds since 1970: the clock of the model
\* starts at Epoch, above every number in the ids of the initial steps.
Epoch == 1000000

\* `step-${Date.now()}-${random}`, content ''; "r" is the random part
NewStep(time) ==
  [id |-> "step-" \o ToString(Epoch + time) \o "-r", content |-> ""]

StepIds(list) == { list[i].id : i \in 1..Len(list) } \cup { "nonexistent" }

StepsFrame ==
  /\ Background
  /\ UNCHANGED <<calls, library, pendingUpdates, testSets, steps, editor,
                 mockExecutions, tasks>>

\* onStepsChange(newSteps), setFocusedStepId and the effect that follows the
\* render: an empty list gets a new step, which takes the focus.
onStepsChange(newSteps, newFocusedStepId, created) ==
  IF Len(newSteps) = 0
    THEN /\ enhancedSteps' = << NewStep(now + created) >>
         /\ focusedStepId' = NewStep(now + created).id
         /\ now' = now + created + 1
    ELSE /\ enhancedSteps' = newSteps
         /\ focusedStepId' = newFocusedStepId
         /\ now' = now + created

\* the argument of a call of addStep without one (an index is -1 or more)
undefined == -2

\* addStep(afterIndex)
addStep(afterIndex) ==
  /\ now < MaxAdded
  /\ LET newStep == NewStep(now)
         insertIndex == IF afterIndex # undefined THEN afterIndex + 1
                        ELSE Len(enhancedSteps)
     IN  onStepsChange(splice(enhancedSteps, insertIndex, newStep),
                       newStep.id, 1)
  /\ StepsFrame

\* a removeStep without the test on steps.length
removeStepFromAnyList(list, focused, stepId) ==
  LET stepIndex == findIndex(list, stepId)
      newSteps == SelectSeq(list, LAMBDA s : s.id # stepId)
      focusIndex == max(0, stepIndex - 1)
  IN  IF stepIndex = -1 THEN [steps |-> list, focusedStepId |-> focused]
      ELSE [steps |-> newSteps,
            focusedStepId |-> IF focusIndex + 1 \in 1..Len(newSteps)
                                THEN newSteps[focusIndex + 1].id
                                ELSE focused]

\* removeStep: the list and the focused step it leaves
removeStepFrom(list, focused, stepId) ==
  LET stepIndex == findIndex(list, stepId)
      newSteps == SelectSeq(list, LAMBDA s : s.id # stepId)
      focusIndex == max(0, stepIndex - 1)
  IN  IF stepIndex = -1 THEN [steps |-> list, focusedStepId |-> focused]
      ELSE IF Len(list) = 1 THEN [steps |-> list, focusedStepId |-> focused]
      ELSE [steps |-> newSteps,
            focusedStepId |-> IF focusIndex + 1 \in 1..Len(newSteps)
                                THEN newSteps[focusIndex + 1].id
                                ELSE focused]

removeStep(stepId) ==
  /\ LET outcome == removeStepFrom(enhancedSteps, focusedStepId, stepId)
     IN  onStepsChange(outcome.steps, outcome.focusedStepId, 0)
  /\ StepsFrame

updateStep(stepId, content) ==
  /\ onStepsChange([i \in 1..Len(enhancedSteps) |->
                      IF enhancedSteps[i].id = stepId
                        THEN [enhancedSteps[i] EXCEPT !.content = content]
                        ELSE enhancedSteps[i]],
                   focusedStepId, 0)
  /\ StepsFrame

handleStepEnter(stepId) == addStep(findIndex(enhancedSteps, stepId))

handleStepBackspace(stepId) ==
  IF \E i \in 1..Len(enhancedSteps) :
       enhancedSteps[i].id = stepId /\ enhancedSteps[i].content = ""
    THEN removeStep(stepId)
    ELSE UNCHANGED vars

handleStepTab(stepId, direction) ==
  LET currentIndex == findIndex(enhancedSteps, stepId)
      targetIndex == IF direction = "forward" THEN currentIndex + 1
                     ELSE currentIndex - 1
  IN  IF currentIndex = -1 THEN UNCHANGED vars
      ELSE IF direction = "forward" /\ targetIndex >= Len(enhancedSteps)
        THEN addStep(currentIndex)
      ELSE IF direction = "backward" /\ targetIndex < 0 THEN UNCHANGED vars
      ELSE /\ focusedStepId' = enhancedSteps[targetIndex + 1].id
           /\ UNCHANGED <<enhancedSteps, now>>
           /\ StepsFrame

\* onFocus={() => setFocusedStepId(step.id)}
onFocus(stepId) ==
  /\ focusedStepId' = stepId
  /\ UNCHANGED <<enhancedSteps, now>>
  /\ StepsFrame

\* The page with the later steps of its initial list deleted one by one
\* from the end: what is left is a beginning of the list, with the focus
\* on its last step.
InitSteps ==
  /\ treeData = InitialTree
  /\ now = 0
  /\ tree0 = InitialTree
  /\ calls = <<>>
  /\ EditorIdle
  /\ \E n \in 1..MaxInitialSteps :
       /\ enhancedSteps = SubSeq(InitialEnhancedSteps, 1, n)
       /\ focusedStepId = InitialEnhancedSteps[n].id
  /\ library = InitialLibrary
  /\ pendingUpdates = <<>>
  /\ testSets = InitialTestSets
  /\ steps = InitialSteps
  /\ editor = InitialEditor
  /\ mockExecutions = InitialExecutions
  /\ tasks = <<>>

NextSteps ==
  \/ addStep(undefined)
  \/ \E stepId \in StepIds(enhancedSteps) : handleStepBackspace(stepId)
  \/ \E stepId \in StepIds(enhancedSteps) : removeStep(stepId)
  \/ \E stepId \in StepIds(enhancedSteps) : updateStep(stepId, "")
  \/ \E stepId \in StepIds(enhancedSteps) : handleStepEnter(stepId)
  \/ \E stepId \in StepIds(enhancedSteps), direction \in {"forward", "backward"} :
       handleStepTab(stepId, direction)
  \/ \E stepId \in StepIds(enhancedSteps) \ {"nonexistent"} : onFocus(stepId)

SpecSteps == InitSteps /\ [][NextSteps]_vars

(***************************************************************************)
(* The auto-saving TestCaseEditor.  editor holds its useState values.      *)
(* tasks holds what is scheduled and has not run: the auto-save timeout    *)
(* and, for every save that awaits its simulated request, one entry; the   *)
(* field edited of a save records whether a step or the name was edited    *)
(* since the save started.  The page is mounted without a testCaseId, so   *)
(* the effects that load and store testCaseData do nothing.                *)
(***************************************************************************)
MaxSaves == 2   \* saves in flight at once

StepContents == { "", "click" }

AutoSaveTimeout == [op |-> "setTimeout", edited |-> FALSE]

Save(op) == [op |-> op, edited |-> FALSE]

IsSave(task) == task.op \in { "handleAutoSave", "handleManualSave" }

RemoveAt(queue, i) == SubSeq(queue, 1, i - 1) \o SubSeq(queue, i + 1, Len(queue))

\* every save in flight has now been overtaken by an edit
MarkEdited(queue) ==
  [i \in 1..Len(queue) |->
     IF IsSave(queue[i]) THEN [queue[i] EXCEPT !.edited = TRUE] ELSE queue[i]]

\* useEffect(..., [hasUnsavedChanges, steps]): when a dependency changed
\* (setSteps always stores a new array) the cleanup clears the timeout and
\* the effect sets a new one if there are unsaved changes.
autoSaveEffect(newEditor, stepsSet, queue) ==
  IF ~stepsSet /\ newEditor.hasUnsavedChanges = editor.hasUnsavedChanges
    THEN queue
    ELSE LET cleared == SelectSeq(queue, LAMBDA task : task.op # "setTimeout")
         IN  IF newEditor.hasUnsavedChanges
               THEN Append(cleared, AutoSaveTimeout)
               ELSE cleared

EditorFrame ==
  /\ Background
  /\ UNCHANGED <<calls, library, pendingUpdates, enhancedSteps, focusedStepId,
                 testSets, steps, mockExecutions>>

\* an edit: the new state, the saves in flight marked, the effect run
edit(newEditor, stepsSet) ==
  /\ editor' = newEditor
  /\ tasks' = autoSaveEffect(newEditor, stepsSet, MarkEdited(tasks))
  /\ EditorFrame

\* updateStep
updateEditorStep(stepId, content) ==
  /\ edit([editor EXCEPT
             !.steps = [i \in 1..Len(editor.steps) |->
                          IF editor.steps[i].id = stepId
                            THEN [editor.steps[i] EXCEPT !.content = content]
                            ELSE editor.steps[i]],
             !.hasUnsavedChanges = TRUE],
          TRUE)
  /\ UNCHANGED now

\* `step-${Date.now()}`, content ''
NewEditorStep(time) ==
  [id |-> "step-" \o ToString(Epoch + time), content |-> ""]

\* addStep(afterStepId); "" is the call without argument (falsy)
addEditorStep(afterStepId) ==
  /\ now < MaxAdded
  /\ LET newStep == NewEditorStep(now)
         stepIndex == findIndex(editor.steps, afterStepId)
     IN  edit([editor EXCEPT
                 !.steps = IF afterStepId # ""
                             THEN splice(editor.steps, stepIndex + 1, newStep)
                             ELSE Append(editor.steps, newStep),
                 !.focusedStepId = newStep.id,
                 !.hasUnsavedChanges = TRUE],
              TRUE)
  /\ now' = now + 1

\* removeStep of the editor: what it leaves of the editor's state, and
\* whether it called setSteps
removeEditorStepFrom(state, stepId) ==
  LET stepIndex == findIndex(state.steps, stepId)
      newSteps == SelectSeq(state.steps, LAMBDA s : s.id # stepId)
      focusIndex == max(0, stepIndex - 1)
  IN  IF Len(state.steps) = 1 THEN [editor |-> state, stepsSet |-> FALSE]
      ELSE [editor |-> [state EXCEPT
                          !.steps = newSteps,
                          !.focusedStepId =
                             IF Len(newSteps) > 0
                               THEN newSteps[focusIndex + 1].id
                               ELSE state.focusedStepId,
                          !.hasUnsavedChanges = TRUE],
            stepsSet |-> TRUE]

removeEditorStep(stepId) ==
  /\ LET outcome == removeEditorStepFrom(editor, stepId)
     IN  IF outcome.stepsSet THEN edit(outcome.editor, TRUE)
         ELSE UNCHANGED <<editor, tasks>> /\ EditorFrame
  /\ UNCHANGED now

\* handleKeyDown of the editor, for a step on screen
handleEditorKeyDown(stepId, key) ==
  LET stepIndex == findIndex(editor.steps, stepId)
      isLastStep == stepIndex = Len(editor.steps) - 1
      currentStep == editor.steps[stepIndex + 1]
      focus(id) == /\ editor' = [editor EXCEPT !.focusedStepId = id]
                   /\ UNCHANGED <<tasks, now>>
                   /\ EditorFrame
  IN  /\ stepIndex # -1
      /\ CASE key = "Enter" ->
                IF isLastStep THEN addEditorStep(stepId) ELSE UNCHANGED vars
           [] key = "Backspace" ->
                IF currentStep.content = "" /\ Len(editor.steps) > 1
                  THEN removeEditorStep(stepId)
                  ELSE UNCHANGED vars
           [] key = "ArrowUp" ->
                IF stepIndex > 0 THEN focus(editor.steps[stepIndex].id)
                ELSE UNCHANGED vars
           [] key = "ArrowDown" ->
                IF stepIndex < Len(editor.steps) - 1
                  THEN focus(editor.steps[stepIndex + 2].id)
                  ELSE UNCHANGED vars

\* the name input: setTestCaseName, setHasUnsavedChanges(true)
setTestCaseName(name) ==
  /\ edit([editor EXCEPT !.testCaseName = name, !.hasUnsavedChanges = TRUE],
          FALSE)
  /\ UNCHANGED now

\* the auto-save timeout fires: handleAutoSave up to its await
handleAutoSave ==
  /\ Len(SelectSeq(tasks, IsSave)) < MaxSaves
  /\ \E i \in 1..Len(tasks) :
       /\ tasks[i].op = "setTimeout"
       /\ tasks' = Append(RemoveAt(tasks, i), Save("handleAutoSave"))
  /\ editor' = [editor EXCEPT !.isSaving = TRUE]
  /\ UNCHANGED now
  /\ EditorFrame

\* the Save button (disabled while isSaving): handleManualSave up to its
\* await
handleManualSave ==
  /\ Len(SelectSeq(tasks, IsSave)) < MaxSaves
  /\ ~editor.isSaving
  /\ tasks' = Append(tasks, Save("handleManualSave"))
  /\ editor' = [editor EXCEPT !.isSaving = TRUE]
  /\ UNCHANGED now
  /\ EditorFrame

\* the simulated request of save i resolves: setHasUnsavedChanges(false),
\* then setIsSaving(false) in the finally block, then the effect
saveResolves(i) ==
  /\ i \in 1..Len(tasks)
  /\ IsSave(tasks[i])
  /\ LET newEditor == [editor EXCEPT !.hasUnsavedChanges = FALSE,
                                      !.isSaving = FALSE]
     IN  /\ editor' = newEditor
         /\ tasks' = autoSaveEffect(newEditor, FALSE, RemoveAt(tasks, i))
  /\ UNCHANGED now
  /\ EditorFrame

EditorStepIds == { editor.steps[i].id : i \in 1..Len(editor.steps) }

NextSave ==
  \/ \E stepId \in EditorStepIds, content \in StepContents :
       updateEditorStep(stepId, content)
  \/ addEditorStep("")
  \/ \E stepId \in EditorStepIds, key \in {"Enter", "Backspace", "ArrowUp", "ArrowDown"} :
       handleEditorKeyDown(stepId, key)
  \/ \E name \in {"New Test Case", "Login"} : setTestCaseName(name)
  \/ handleAutoSave
  \/ handleManualSave
  \/ \E i \in 1..Len(tasks) : saveResolves(i)

SpecSave == Init /\ [][NextSave]_vars

(***************************************************************************)
(* testExecutionService.  Every method first awaits a timer, so a call is  *)
(* two steps: the call, which leaves a task, and its continuation.  The    *)
(* completion timer of executeTest holds the execution object, which is    *)
(* the entry of mockExecutions at the index it was pushed to (the array    *)
(* only grows).  calls holds the last value a stopExecution returned.      *)
(* The continuations run at different times, so the clock read for the id  *)
(* of an execution differs from one execution to the next.                 *)
(***************************************************************************)
MaxExecutions == 2   \* executions started

MaxTasks == 2        \* timers and continuations pending at once

ExecutionIds ==
  { mockExecutions[k].id : k \in 1..Len(mockExecutions) } \cup { "nonexistent" }

ExecFrame ==
  /\ Background
  /\ UNCHANGED <<library, pendingUpdates, enhancedSteps, focusedStepId,
                 testSets, steps, editor>>

\* executeTest up to its await
executeTest(testCaseId) ==
  /\ now < MaxExecutions
  /\ Len(tasks) < MaxTasks
  /\ tasks' = Append(tasks, [op |-> "executeTest", arg |-> testCaseId])
  /\ now' = now + 1
  /\ UNCHANGED <<mockExecutions, calls>>
  /\ ExecFrame

\* executeTest after its await: the execution is pushed as 'running' and
\* its completion timer is set
executeTestResumes(i) ==
  /\ i \in 1..Len(tasks)
  /\ tasks[i].op = "executeTest"
  /\ mockExecutions' =
       Append(mockExecutions,
              [id |-> "exec-" \o ToString(Epoch + Len(mockExecutions)),
               testCaseId |-> tasks[i].arg,
               status |-> "running"])
  /\ tasks' = Append(RemoveAt(tasks, i),
                     [op |-> "setTimeout", arg |-> Len(mockExecutions) + 1])
  /\ UNCHANGED <<now, calls>>
  /\ ExecFrame

\* the completion timer: Math.random() > 0.3 ? 'passed' : 'failed'
executionCompletes(i, status) ==
  /\ i \in 1..Len(tasks)
  /\ tasks[i].op = "setTimeout"
  /\ mockExecutions' = [mockExecutions EXCEPT ![tasks[i].arg].status = status]
  /\ tasks' = RemoveAt(tasks, i)
  /\ UNCHANGED <<now, calls>>
  /\ ExecFrame

\* stopExecution up to its await
stopExecution(id) ==
  /\ Len(tasks) < MaxTasks
  /\ tasks' = Append(tasks, [op |-> "stopExecution", arg |-> id])
  /\ UNCHANGED <<mockExecutions, now, calls>>
  /\ ExecFrame

\* stopExecution after its await
stopExecutionResumes(i) ==
  /\ i \in 1..Len(tasks)
  /\ tasks[i].op = "stopExecution"
  /\ LET id == tasks[i].arg
         found == { k \in 1..Len(mockExecutions) : mockExecutions[k].id = id }
         first == CHOOSE k \in found : \A other \in found : k <= other
     IN  IF found = {}
           THEN /\ calls' = << [op |-> "stopExecution", id |-> id,
                                returned |-> FALSE] >>
                /\ UNCHANGED mockExecutions
           ELSE /\ calls' = << [op |-> "stopExecution", id |-> id,
                                returned |-> TRUE] >>
                /\ mockExecutions' =
                     [mockExecutions EXCEPT ![first].status = "stopped"]
  /\ tasks' = RemoveAt(tasks, i)
  /\ UNCHANGED now
  /\ ExecFrame

NextExec ==
  \/ executeTest("tc-1")
  \/ \E i \in 1..Len(tasks) : executeTestResumes(i)
  \/ \E i \in 1..Len(tasks), status \in {"passed", "failed"} :
       executionCompletes(i, status)
  \/ \E id \in ExecutionIds : stopExecution(id)
  \/ \E i \in 1..Len(tasks) : stopExecutionResumes(i)

SpecExec == Init /\ [][NextExec]_vars

(***************************************************************************)
(* The test selection panel: test sets with their test cases, each with a  *)
(* checkbox, and a button that opens and closes a set.  The optional       *)
(* isOpen of a set is read for its truthiness only: it is the field open   *)
(* being TRUE.                                                             *)
(***************************************************************************)
SetIds == { testSets[k].id : k \in 1..Len(testSets) } \cup { "nonexistent" }

CaseIds ==
  UNION { { testSets[k].testCases[c].id : c \in 1..Len(testSets[k].testCases) } :
            k \in 1..Len(testSets) }
    \cup { "nonexistent" }

every(list, p(_)) == \A i \in 1..Len(list) : p(list[i])

\* a variant that gives the set the flag of the test case just changed
testCaseSelectionLastWins(sets, setId, caseId, checked) ==
  Map(sets, LAMBDA set :
    IF set.id = setId
      THEN [set EXCEPT
              !.selected = checked,
              !.testCases = Map(set.testCases, LAMBDA tc :
                                  IF tc.id = caseId
                                    THEN [tc EXCEPT !.selected = checked]
                                    ELSE tc)]
      ELSE set)

\* the sets handleTestSetSelection stores
testSetSelection(sets, setId, checked) ==
  Map(sets, LAMBDA set :
    IF set.id = setId
      THEN [set EXCEPT
              !.selected = checked,
              !.testCases = Map(set.testCases, LAMBDA tc :
                                  [tc EXCEPT !.selected = checked])]
      ELSE set)

\* the sets handleTestCaseSelection stores
testCaseSelection(sets, setId, caseId, checked) ==
  Map(sets, LAMBDA set :
    IF set.id = setId
      THEN LET updatedTestCases ==
                 Map(set.testCases, LAMBDA tc :
                       IF tc.id = caseId THEN [tc EXCEPT !.selected = checked]
                       ELSE tc)
               allSelected == every(updatedTestCases, LAMBDA tc : tc.selected)
           IN  [set EXCEPT !.selected = allSelected,
                           !.testCases = updatedTestCases]
      ELSE set)

SelectionFrame ==
  /\ Background
  /\ UNCHANGED <<now, calls, library, pendingUpdates, enhancedSteps,
                 focusedStepId, steps, editor, mockExecutions, tasks>>

handleTestSetSelection(setId, checked) ==
  /\ testSets' = testSetSelection(testSets, setId, checked)
  /\ SelectionFrame

handleTestCaseSelection(setId, caseId, checked) ==
  /\ testSets' = testCaseSelection(testSets, setId, caseId, checked)
  /\ SelectionFrame

handleTestSetToggle(setId) ==
  /\ testSets' = Map(testSets, LAMBDA set :
                       IF set.id = setId THEN [set EXCEPT !.open = ~set.open]
                       ELSE set)
  /\ SelectionFrame

\* the panel on the page's test sets, every set closed
InitSelection ==
  /\ treeData = InitialTree
  /\ now = 0
  /\ tree0 = InitialTree
  /\ calls = <<>>
  /\ EditorIdle
  /\ testSets = Map(InitialTestSets, LAMBDA set :
                      [id |-> set.id, name |-> set.name,
                       selected |-> set.selected, testCases |-> set.testCases,
                       open |-> FALSE])
  /\ library = InitialLibrary
  /\ pendingUpdates = <<>>
  /\ enhancedSteps = InitialEnhancedSteps
  /\ focusedStepId = "null"
  /\ steps = InitialSteps
  /\ editor = InitialEditor
  /\ mockExecutions = InitialExecutions
  /\ tasks = <<>>

NextSelection ==
  \/ \E setId \in SetIds, checked \in BOOLEAN :
       handleTestSetSelection(setId, checked)
  \/ \E setId \in SetIds, caseId \in CaseIds, checked \in BOOLEAN :
       handleTestCaseSelection(setId, caseId, checked)
  \/ \E setId \in SetIds : handleTestSetToggle(setId)

SpecSelection == InitSelection /\ [][NextSelection]_vars

(***************************************************************************)
(* The table view of the page: numbered steps, added at the end and        *)
(* deleted by id.  The handlers are rebuilt on every render, so each runs  *)
(* on the list on screen.                                                  *)
(***************************************************************************)
TableStepIds == { steps[i].id : i \in 1..Len(steps) } \cup { "nonexistent" }

\* a deleteStep that keeps the numbers the steps had
deleteStepFromKeepingNumbers(list, id) ==
  SelectSeq(list, LAMBDA step : step.id # id)

\* the list deleteStep stores
deleteStepFrom(list, id) ==
  LET updatedSteps == SelectSeq(list, LAMBDA step : step.id # id)
  IN  [index \in 1..Len(updatedSteps) |->
         [updatedSteps[index] EXCEPT !.stepNumber = index]]

TableFrame ==
  /\ Background
  /\ UNCHANGED <<calls, library, pendingUpdates, enhancedSteps, focusedStepId,
                 testSets, editor, mockExecutions, tasks>>

\* addStep of the table view; the id is Date.now().toString()
addTableStep ==
  /\ now < MaxAdded
  /\ steps' = Append(steps,
                     [id |-> ToString(Epoch + now),
                      stepNumber |-> Len(steps) + 1,
                      action |-> "Click", object |-> "", parameters |-> "",
                      status |-> "pending"])
  /\ now' = now + 1
  /\ TableFrame

deleteStep(id) ==
  /\ steps' = deleteStepFrom(steps, id)
  /\ UNCHANGED now
  /\ TableFrame

\* updateStep(id, 'object', value) of the table view
updateTableStep(id, newObject) ==
  /\ steps' = [i \in 1..Len(steps) |->
                 IF steps[i].id = id THEN [steps[i] EXCEPT !.object = newObject]
                 ELSE steps[i]]
  /\ UNCHANGED now
  /\ TableFrame

NextTable ==
  \/ addTableStep
  \/ \E id \in TableStepIds : deleteStep(id)
  \/ \E id \in TableStepIds : updateTableStep(id, "")

SpecTable == Init /\ [][NextTable]_vars

(***************************************************************************)
(* Vocabulary of the properties                                            *)
(***************************************************************************)
Descendants(node) == IF HasChildren(node) THEN AllNodes(node.children) ELSE {}
DescendantTests(node) == { d \in Descendants(node) : d.type = "test" }
ChildIds(node) == { node.children[i].id : i \in 1..Len(node.children) }
Children(node) == { node.children[i] : i \in 1..Len(node.children) }
HasId(nodes, id) == id \in NodeIds(nodes)
NodeWithId(nodes, id) == CHOOSE node \in AllNodes(nodes) : node.id = id
StrictAncestors(nodes, id) ==
  { node \in AllNodes(nodes) : HasChildren(node) /\ id \in NodeIds(node.children) }
Flags(node) == <<node.selected, node.indeterminate>>
FlagsOf(id) == Flags(NodeWithId(treeData, id))
LastCall == calls[Len(calls)]
OnlyLeafChildren(node) ==
  /\ HasChildren(node)
  /\ Len(node.children) > 0
  /\ \A child \in Children(node) : ~HasChildren(child)

(***************************************************************************)
(* C1: no node of a reachable tree is selected and indeterminate at the    *)
(* same time.                                                              *)
(***************************************************************************)
TriStateInvariant ==
  \A node \in AllNodes(treeData) : ~(node.selected /\ node.indeterminate)

(***************************************************************************)
(* C2: in every reachable tree, a selected node that has children has only *)
(* selected children.                                                      *)
(***************************************************************************)
SelectedImpliesChildrenSelected ==
  \A node \in AllNodes(treeData) :
    (HasChildren(node) /\ node.selected) =>
      \A child \in Children(node) : child.selected

(***************************************************************************)
(* C3: in every reachable tree, an indeterminate node has a selected       *)
(* descendant test and an unselected descendant test.                      *)
(***************************************************************************)
IndeterminateImpliesMixedLeaves ==
  \A node \in AllNodes(treeData) :
    node.indeterminate =>
      /\ \E leaf \in DescendantTests(node) : leaf.selected
      /\ \E leaf \in DescendantTests(node) : ~leaf.selected

(***************************************************************************)
(* C4: after setNodeSelected(id, v) on a node that has children, every     *)
(* descendant of the node has selected = v and indeterminate = false.      *)
(***************************************************************************)
DownwardCascade ==
  (Len(calls) > 0 /\ HasId(treeData, LastCall.nodeId)) =>
    \A d \in Descendants(NodeWithId(treeData, LastCall.nodeId)) :
      d.selected = LastCall.checked /\ ~d.indeterminate

DownwardCascadeWitness ==
  /\ tree0 = InitialTree
  /\ calls = <<Call("3", TRUE), Call("1", FALSE)>>
  /\ \A d \in Descendants(NodeWithId(treeData, "1")) :
       ~d.selected /\ ~d.indeterminate

(***************************************************************************)
(* C5: after setNodeSelected on an existing node, every strict ancestor of *)
(* the target has the flags its direct children's flags determine: all     *)
(* selected gives (true, false), none selected and none indeterminate      *)
(* gives (false, false), anything else gives (false, true).                *)
(***************************************************************************)
FlagsFromChildren(node) ==
  IF \A child \in Children(node) : child.selected THEN <<TRUE, FALSE>>
  ELSE IF \A child \in Children(node) : ~child.selected /\ ~child.indeterminate
    THEN <<FALSE, FALSE>>
  ELSE <<FALSE, TRUE>>

UpwardRecompute ==
  (Len(calls) > 0 /\ HasId(treeData, LastCall.nodeId)) =>
    \A ancestor \in StrictAncestors(treeData, LastCall.nodeId) :
      Flags(ancestor) = FlagsFromChildren(ancestor)

UpwardRecomputeWitness ==
  /\ tree0 = InitialTree
  /\ calls = <<Call("3", TRUE)>>
  /\ StrictAncestors(treeData, "3")
       = {NodeWithId(treeData, "1"), NodeWithId(treeData, "2")}
  /\ FlagsOf("2") = <<FALSE, TRUE>>
  /\ FlagsOf("1") = <<FALSE, TRUE>>

(***************************************************************************)
(* C6: setNodeSelected with an id that is not in the tree returns the tree *)
(* unchanged, for every reachable tree.                                    *)
(***************************************************************************)
MissingIdIsNoOp ==
  \A checked \in BOOLEAN :
    updateNodeSelection(treeData, "nonexistent", checked) = treeData

(***************************************************************************)
(* C7: on P -> F -> [A, B] with nothing selected, setNodeSelected(F, true) *)
(* selects A, B, F and P with F and P not indeterminate; a following       *)
(* setNodeSelected(A, false) leaves A unselected, B selected and both F    *)
(* and P unselected and indeterminate.                                     *)
(***************************************************************************)
ScenarioPFAB ==
  tree0 = TreePFAB =>
    /\ calls = <<Call("F", TRUE)>> =>
         /\ FlagsOf("A") = <<TRUE, FALSE>>
         /\ FlagsOf("B") = <<TRUE, FALSE>>
         /\ FlagsOf("F") = <<TRUE, FALSE>>
         /\ FlagsOf("P") = <<TRUE, FALSE>>
    /\ calls = <<Call("F", TRUE), Call("A", FALSE)>> =>
         /\ ~FlagsOf("A")[1]
         /\ FlagsOf("B")[1]
         /\ FlagsOf("F") = <<FALSE, TRUE>>
         /\ FlagsOf("P") = <<FALSE, TRUE>>

ScenarioPFABWitness ==
  /\ tree0 = TreePFAB
  /\ calls = <<Call("F", TRUE), Call("A", FALSE)>>
  /\ FlagsOf("P") = <<FALSE, TRUE>>

(***************************************************************************)
(* C8: for a folder with exactly 3 leaf children, all unselected at the    *)
(* start, selecting each of the 3 children individually, in any order,     *)
(* leaves the folder selected and not indeterminate.                       *)
(***************************************************************************)
AllThreeSelected ==
  \A folder \in AllNodes(tree0) :
    ( /\ OnlyLeafChildren(folder)
      /\ Len(folder.children) = 3
      /\ \A child \in Children(folder) : ~child.selected
      /\ Len(calls) = 3
      /\ { calls[i].nodeId : i \in 1..3 } = ChildIds(folder)
      /\ \A i \in 1..3 : calls[i].checked )
    => FlagsOf(folder.id) = <<TRUE, FALSE>>

AllThreeSelectedWitness ==
  /\ tree0 = InitialTree
  /\ calls = <<Call("5", TRUE), Call("3", TRUE), Call("4", TRUE)>>
  /\ FlagsOf("2") = <<TRUE, FALSE>>

(***************************************************************************)
(* C9: for a folder with exactly 3 leaf children, whenever exactly 1 of    *)
(* the 3 is selected after a setNodeSelected call on one of them, the      *)
(* folder is indeterminate and not selected.                               *)
(***************************************************************************)
OneOfThreeSelected ==
  \A folder \in AllNodes(treeData) :
    ( /\ Len(calls) > 0
      /\ OnlyLeafChildren(folder)
      /\ Len(folder.children) = 3
      /\ LastCall.nodeId \in ChildIds(folder)
      /\ Cardinality({ child \in Children(folder) : child.selected }) = 1 )
    => Flags(folder) = <<FALSE, TRUE>>

OneOfThreeSelectedWitness ==
  /\ tree0 = InitialTree
  /\ calls = <<Call("3", TRUE), Call("4", TRUE), Call("3", FALSE)>>
  /\ FlagsOf("2") = <<FALSE, TRUE>>

(***************************************************************************)
(* C10: for a folder with leaf children, once a setNodeSelected(child,     *)
(* false) call leaves every child unselected, the folder is neither        *)
(* selected nor indeterminate, whatever its state was before.              *)
(***************************************************************************)
NoneSelected ==
  \A folder \in AllNodes(treeData) :
    ( /\ Len(calls) > 0
      /\ OnlyLeafChildren(folder)
      /\ LastCall.nodeId \in ChildIds(folder)
      /\ ~LastCall.checked
      /\ \A child \in Children(folder) : ~child.selected )
    => Flags(folder) = <<FALSE, FALSE>>

NoneSelectedWitness ==
  /\ tree0 = TreePFAB
  /\ calls = <<Call("F", TRUE), Call("A", FALSE), Call("B", FALSE)>>
  /\ FlagsOf("F") = <<FALSE, FALSE>>

(***************************************************************************)
(* C11: setNodeSelected is idempotent: a call repeated right after itself  *)
(* leaves the tree as the first of the two calls left it.                  *)
(***************************************************************************)
RECURSIVE ApplyCalls(_, _)
ApplyCalls(nodes, callSeq) ==
  IF Len(callSeq) = 0 THEN nodes
  ELSE ApplyCalls(updateNodeSelection(nodes, Head(callSeq).nodeId,
                                      Head(callSeq).checked),
                  Tail(callSeq))

Front(callSeq) == SubSeq(callSeq, 1, Len(callSeq) - 1)

Idempotence ==
  (Len(calls) >= 2 /\ LastCall = calls[Len(calls) - 1]) =>
    treeData = ApplyCalls(tree0, Front(calls))

IdempotenceWitness ==
  /\ tree0 = TreeWithEmptyFolder
  /\ calls = <<Call("3", TRUE), Call("2", TRUE), Call("2", TRUE)>>
  /\ treeData # ApplyCalls(tree0, <<Call("3", TRUE)>>)
  /\ FlagsOf("2") = <<TRUE, TRUE>>

(***************************************************************************)
(* C12 as claimed: getSelectedTestCasesInFolder(scope) returns, in tree    *)
(* order, every selected test at any depth below the scope node, so for    *)
(* the project it returns the selected tests of the whole tree.            *)
(***************************************************************************)
SelectedTestsBelow(node) ==
  IF HasChildren(node)
    THEN Filter(Flatten(node.children),
                LAMBDA d : d.type = "test" /\ d.selected)
    ELSE <<>>

CollectsAllDescendantTests ==
  \A scope \in NodeIds(treeData) :
    getSelectedTestCasesInFolder(treeData, scope)
      = SelectedTestsBelow(NodeWithId(treeData, scope))

(***************************************************************************)
(* C12 as amended: getSelectedTestCasesInFolder(scope) returns, in child   *)
(* order, exactly the direct children of the scope node that are tests and *)
(* selected; selected tests deeper below the scope are not returned, and a *)
(* scope that is not in the tree gives the empty sequence.                 *)
(***************************************************************************)
IdsOf(nodes) == [i \in 1..Len(nodes) |-> nodes[i].id]
ChildIndex(node, id) == CHOOSE i \in 1..Len(node.children) : node.children[i].id = id

CollectsDirectChildTests ==
  /\ getSelectedTestCasesInFolder(treeData, "nonexistent") = <<>>
  /\ \A node \in AllNodes(treeData) :
       LET result == getSelectedTestCasesInFolder(treeData, node.id)
       IN  IF ~HasChildren(node) THEN result = <<>>
           ELSE /\ \A i \in 1..Len(result) :
                     /\ result[i] \in Children(node)
                     /\ result[i].type = "test"
                     /\ result[i].selected
                /\ \A child \in Children(node) :
                     (child.type = "test" /\ child.selected) =>
                       \E i \in 1..Len(result) : result[i] = child
                /\ \A i \in 1..(Len(result) - 1) :
                     ChildIndex(node, result[i].id)
                       < ChildIndex(node, result[i + 1].id)

CollectsDirectChildTestsWitness ==
  /\ tree0 = InitialTree
  /\ calls = <<Call("1", TRUE), Call("4", FALSE)>>
  /\ IdsOf(getSelectedTestCasesInFolder(treeData, "2")) = <<"3", "5">>
  /\ getSelectedTestCasesInFolder(treeData, "1") = <<>>
  /\ Len(SelectedTestsBelow(NodeWithId(treeData, "1"))) = 5

(***************************************************************************)
(* C13: getSelectedTestCasesInFolder never returns a node that is not a    *)
(* test or a test whose own selected flag is false; after a folder was     *)
(* selected by cascade and one of its tests deselected, the result is the  *)
(* folder's other tests.                                                   *)
(***************************************************************************)
OnlySelectedLeaves ==
  /\ LET all == AllNodes(treeData)
     IN  \A scope \in {node.id : node \in all} \cup {"nonexistent"} :
           LET result == getSelectedTestCasesInFolder(treeData, scope)
           IN  \A i \in 1..Len(result) :
                 /\ result[i].type = "test"
                 /\ ~HasChildren(result[i])
                 /\ \E node \in all : node.id = result[i].id /\ node.selected
  /\ Len(calls) = 2 =>
       \A folder \in AllNodes(tree0) :
         ( /\ OnlyLeafChildren(folder)
           /\ calls[1] = Call(folder.id, TRUE)
           /\ calls[2].nodeId \in ChildIds(folder)
           /\ ~calls[2].checked )
         => /\ Flags(NodeWithId(treeData, folder.id)) = <<FALSE, TRUE>>
            /\ IdsOf(getSelectedTestCasesInFolder(treeData, folder.id))
                 = SelectSeq(IdsOf(folder.children),
                             LAMBDA id : id # calls[2].nodeId)

OnlySelectedLeavesWitness ==
  /\ tree0 = InitialTree
  /\ calls = <<Call("2", TRUE), Call("4", FALSE)>>
  /\ FlagsOf("2") = <<FALSE, TRUE>>
  /\ IdsOf(getSelectedTestCasesInFolder(treeData, "2")) = <<"3", "5">>

(***************************************************************************)
(* C14: toggleExpanded(nodeId) flips the expanded flag of exactly the node *)
(* with that id; no other expanded flag and no id, name, type, selected or *)
(* indeterminate flag or list of children changes.                         *)
(***************************************************************************)
RECURSIVE ApplyToggles(_, _)
ApplyToggles(nodes, toggleSeq) ==
  IF Len(toggleSeq) = 0 THEN nodes
  ELSE ApplyToggles(updateNode(nodes, Head(toggleSeq).nodeId), Tail(toggleSeq))

IsToggle(call) == "op" \in DOMAIN call

ToggleFlipsOnlyTarget ==
  (Len(calls) > 0 /\ IsToggle(LastCall)) =>
    LET before == Flatten(ApplyToggles(tree0, Front(calls)))
        after == Flatten(treeData)
    IN  /\ Len(after) = Len(before)
        /\ \A i \in 1..Len(before) :
             /\ after[i].id = before[i].id
             /\ after[i].name = before[i].name
             /\ after[i].type = before[i].type
             /\ after[i].selected = before[i].selected
             /\ after[i].indeterminate = before[i].indeterminate
             /\ HasChildren(after[i]) = HasChildren(before[i])
             /\ HasChildren(before[i]) =>
                  Len(after[i].children) = Len(before[i].children)
             /\ after[i].isExpanded =
                  (IF before[i].id = LastCall.nodeId
                     THEN ~before[i].isExpanded ELSE before[i].isExpanded)

ToggleFlipsOnlyTargetWitness ==
  /\ tree0 = updateNodeSelection(InitialTree, "3", TRUE)
  /\ calls = <<Toggle("6"), Toggle("2")>>
  /\ NodeWithId(treeData, "6").isExpanded
  /\ ~NodeWithId(treeData, "2").isExpanded
  /\ FlagsOf("2") = <<FALSE, TRUE>>

(***************************************************************************)
(* Vocabulary of the suggestion properties                                 *)
(***************************************************************************)
IsBlank(query) == \A i \in 1..Len(query) : CharAt(query, i) \in WhiteSpace
Normalized(query) == trim(toLowerCase(query))

FirstTen(catalog) == [i \in 1..10 |-> catalog[i]]

ActionMatches(action, query) ==
  \/ includes(toLowerCase(action.name), Normalized(query))
  \/ includes(toLowerCase(action.description), Normalized(query))

MatchingActions(query) ==
  { TEST_ACTIONS[i] : i \in { j \in 1..Len(TEST_ACTIONS) :
                                ActionMatches(TEST_ACTIONS[j], query) } }

ObjectMatches(obj, query) == includes(toLowerCase(obj), Normalized(query))

MatchingObjects(query) ==
  { PAGE_OBJECTS[i] : i \in { j \in 1..Len(PAGE_OBJECTS) :
                                ObjectMatches(PAGE_OBJECTS[j], query) } }

NameStartsWith(name, query) == startsWith(toLowerCase(name), Normalized(query))

\* a strictly before b in the dictionary, letter case disregarded
AlphabeticallyBefore(a, b) ==
  LET la == toLowerCase(a)
      lb == toLowerCase(b)
  IN  \E k \in 0..Len(la) :
        /\ k <= Len(lb)
        /\ SubSeq(la, 1, k) = SubSeq(lb, 1, k)
        /\ \/ k = Len(la) /\ k < Len(lb)
           \/ /\ k < Len(la)
              /\ k < Len(lb)
              /\ LetterRank[CharAt(la, k + 1)] < LetterRank[CharAt(lb, k + 1)]

DifferOnlyInCase(a, b) ==
  /\ Len(a) = Len(b)
  /\ \A i \in 1..Len(a) :
       LET x == CharAt(a, i)
           y == CharAt(b, i)
       IN  \/ x = y
           \/ x \in DOMAIN LowerCaseOf /\ LowerCaseOf[x] = y
           \/ y \in DOMAIN LowerCaseOf /\ LowerCaseOf[y] = x

\* names(k) is the name of the k-th suggestion; the two groups in order,
\* each group in dictionary order
GroupedAndOrdered(count, names(_), query) ==
  \A i, j \in 1..count :
    i < j =>
      /\ NameStartsWith(names(j), query) => NameStartsWith(names(i), query)
      /\ (NameStartsWith(names(i), query) = NameStartsWith(names(j), query))
           => AlphabeticallyBefore(names(i), names(j))

(***************************************************************************)
(* C15: for a query that is empty or whitespace only, getActionSuggestions *)
(* returns exactly the first 10 entries of TEST_ACTIONS, in catalog order. *)
(***************************************************************************)
EmptyQueryGivesFirstTen ==
  (suggestionType = "action" /\ IsBlank(searchTerm)) =>
    suggestions = FirstTen(TEST_ACTIONS)

EmptyQueryGivesFirstTenWitness ==
  /\ suggestionType = "action"
  /\ searchTerm = "  "
  /\ Len(suggestions) = 10
  /\ suggestions[1].name = "navigate"
  /\ suggestions[10].name = "drag"

(***************************************************************************)
(* C16: for a query that is not blank, getActionSuggestions returns        *)
(* exactly the catalog entries whose lower-cased name or description       *)
(* contains the normalized query, each once, none other, not truncated.    *)
(***************************************************************************)
ExactlyTheMatches ==
  (suggestionType = "action" /\ ~IsBlank(searchTerm)) =>
    /\ Len(suggestions) = Cardinality(MatchingActions(searchTerm))
    /\ { suggestions[k] : k \in 1..Len(suggestions) }
         = MatchingActions(searchTerm)

ExactlyTheMatchesWitness ==
  /\ suggestionType = "action"
  /\ searchTerm = "A"
  /\ Len(suggestions) = 19
  /\ \E k \in 1..Len(suggestions) :
       /\ suggestions[k].name = "click"
       /\ includes(suggestions[k].description, "an")
  /\ \A k \in 1..Len(suggestions) : suggestions[k].name # "verify"

(***************************************************************************)
(* C17: in the result of getActionSuggestions for a query that is not      *)
(* blank, the entries whose name starts with the normalized query come     *)
(* before all the others, and each of the two groups is in ascending       *)
(* alphabetical order of name.                                             *)
(***************************************************************************)
StartsWithFirstThenAlphabetical ==
  (suggestionType = "action" /\ ~IsBlank(searchTerm)) =>
    LET names(k) == suggestions[k].name
    IN  GroupedAndOrdered(Len(suggestions), names, searchTerm)

StartsWithFirstThenAlphabeticalWitness ==
  /\ suggestionType = "action"
  /\ searchTerm = "t"
  /\ suggestions[1].name = "type"
  /\ suggestions[2].name = "assert"
  /\ suggestions[3].name = "assertText"
  /\ \E k \in 1..Len(suggestions) :
       /\ suggestions[k].name = "drag"
       /\ ~includes(suggestions[k].name, "t")

(***************************************************************************)
(* C18: two queries that differ only in letter case give the same sequence *)
(* of action suggestions.                                                  *)
(***************************************************************************)
CaseInsensitiveQuery ==
  suggestionType = "action" =>
    \A query \in Queries :
      DifferOnlyInCase(query, searchTerm) =>
        getActionSuggestions(query) = suggestions

CaseInsensitiveQueryWitness ==
  /\ suggestionType = "action"
  /\ searchTerm = "CLICK"
  /\ {"click", "Click"} \subseteq Queries
  /\ Len(suggestions) = 1
  /\ suggestions[1].name = "click"

(***************************************************************************)
(* C19: getObjectSuggestions returns the first 10 object names in catalog  *)
(* order for a blank query, and otherwise exactly the object names that    *)
(* contain the normalized query, letter case disregarded, the names that   *)
(* start with it first and each group in alphabetical order.               *)
(***************************************************************************)
ObjectSuggestionsContract ==
  suggestionType = "object" =>
    IF IsBlank(searchTerm) THEN suggestions = FirstTen(PAGE_OBJECTS)
    ELSE LET names(k) == suggestions[k]
         IN  /\ Len(suggestions) = Cardinality(MatchingObjects(searchTerm))
             /\ { suggestions[k] : k \in 1..Len(suggestions) }
                  = MatchingObjects(searchTerm)
             /\ GroupedAndOrdered(Len(suggestions), names, searchTerm)

ObjectSuggestionsContractWitness ==
  /\ suggestionType = "object"
  /\ searchTerm = "ADD"
  /\ suggestions = <<"addressInput", "addToCartButton">>

(***************************************************************************)
(* C20: triggerSuggestions splits the text before the cursor on single     *)
(* spaces; with exactly one fragment, or a text before the cursor that is  *)
(* empty or whitespace only, the context is action, otherwise object; the  *)
(* query is the last fragment in both cases.                               *)
(***************************************************************************)
\* the positions of the spaces of text, and the fragments between them
SpacesOf(text) == { i \in 1..Len(text) : CharAt(text, i) = " " }
FragmentCount(text) == Cardinality(SpacesOf(text)) + 1
LastFragment(text) ==
  LET lastSpace == IF SpacesOf(text) = {} THEN 0
                   ELSE CHOOSE i \in SpacesOf(text) :
                          \A j \in SpacesOf(text) : j <= i
  IN  SubSeq(text, lastSpace + 1, Len(text))

TriggerClassifiesContext ==
  (Len(calls) > 0 /\ LastCall.op = "triggerSuggestions") =>
    LET text == SubSeq(LastCall.value, 1, LastCall.selectionStart)
    IN  /\ suggestionType =
             (IF FragmentCount(text) = 1 \/ IsBlank(text)
                THEN "action" ELSE "object")
        /\ searchTerm = LastFragment(text)
        /\ ~includes(searchTerm, " ")

TriggerClassifiesContextWitness ==
  /\ Len(calls) > 0
  /\ LastCall = Triggered("  x", 2)
  /\ value = "  x"
  /\ FragmentCount("  ") = 3
  /\ suggestionType = "action"
  /\ searchTerm = ""
  /\ showSuggestions

(***************************************************************************)
(* C21: accepting a suggestion replaces only the last space-delimited      *)
(* fragment of the text before the cursor with the suggestion's text (the  *)
(* syntax of an action, the name of an object): the earlier fragments and  *)
(* the text after the cursor are unchanged, and the new cursor position is *)
(* the length of the rewritten text before the cursor.                     *)
(***************************************************************************)
LastSpace(text) ==
  IF SpacesOf(text) = {} THEN 0
  ELSE CHOOSE i \in SpacesOf(text) : \A j \in SpacesOf(text) : j <= i

SuggestionText(k) ==
  IF suggestionType = "action" THEN suggestions[k].syntax ELSE suggestions[k]

\* a step that closes the popover and rewrites the text or moves the caret
AcceptStep ==
  /\ showSuggestions
  /\ ~showSuggestions'
  /\ <<value, selectionStart>>' # <<value, selectionStart>>

AcceptReplacesLastFragment ==
  [][AcceptStep =>
       \E k \in 1..Len(suggestions) :
         LET before == SubSeq(value, 1, selectionStart)
             after == SubSeq(value, selectionStart + 1, Len(value))
             kept == SubSeq(before, 1, LastSpace(before))
         IN  /\ value' = kept \o SuggestionText(k) \o after
             /\ selectionStart' = Len(kept) + Len(SuggestionText(k))]_vars

(***************************************************************************)
(* C26: in the suggestion popover, after any sequence of ArrowUp and       *)
(* ArrowDown presses and changes of the search term or type,               *)
(* 0 <= selectedIndex <= max(0, number of suggestions - 1), also when the  *)
(* suggestion list is empty.                                               *)
(***************************************************************************)
SelectedIndexInRange ==
  /\ 0 <= selectedIndex
  /\ selectedIndex <= max(0, Len(suggestions) - 1)

(***************************************************************************)
(* C23: setNodeSelected on an existing node changes the selected and       *)
(* indeterminate flags only of the target, its descendants and its strict  *)
(* ancestors; every other node of the tree (a sibling folder, with or      *)
(* without children, created or emptied since its flags were computed)     *)
(* keeps its flags.                                                        *)
(***************************************************************************)
TouchedIds(nodes, nodeId) ==
  LET target == NodeWithId(nodes, nodeId)
  IN  {nodeId}
        \cup { node.id : node \in Descendants(target) }
        \cup { node.id : node \in StrictAncestors(nodes, nodeId) }

OutsideChainKeepsFlags ==
  \A nodeId \in NodeIds(treeData), checked \in BOOLEAN :
    LET after == updateNodeSelection(treeData, nodeId, checked)
    IN  \A id \in NodeIds(treeData) \ TouchedIds(treeData, nodeId) :
          Flags(NodeWithId(after, id)) = FlagsOf(id)

(***************************************************************************)
(* C22: the suggestion functions are pure.  Two calls of the same function *)
(* with the same query return the same ordered sequence, and no call (the  *)
(* in-place sort of the filtered results and the slice of the empty query  *)
(* included) changes the content or order of the action catalog or of the  *)
(* object list.                                                            *)
(***************************************************************************)
SuggestionsArePure ==
  /\ library.TEST_ACTIONS = TEST_ACTIONS
  /\ library.PAGE_OBJECTS = PAGE_OBJECTS
  /\ \A i, j \in 1..Len(calls) :
       (calls[i].op = calls[j].op /\ calls[i].input = calls[j].input)
         => calls[i].returned = calls[j].returned

\* a sorting call, the empty query after it, and the sorting call again
SuggestionsArePureWitness ==
  /\ Len(calls) = 3
  /\ calls[1].op = "getActionSuggestions" /\ calls[1].input = "c"
  /\ calls[2].op = "getActionSuggestions" /\ calls[2].input = ""
  /\ calls[3] = calls[1]
  /\ Len(calls[1].returned) > 1
  /\ calls[1].returned # Filter(TEST_ACTIONS,
                                LAMBDA action : action \in
                                  { calls[1].returned[k] :
                                      k \in 1..Len(calls[1].returned) })
  /\ Len(calls[2].returned) = TopCount

(***************************************************************************)
(* C24: when a selection change and toggleExpanded are dispatched in the   *)
(* same tick, before a re-render, in either order, the rendered tree       *)
(* reflects both: the selection change is applied and the target of the    *)
(* toggle has its isExpanded flipped.                                      *)
(***************************************************************************)
SelectionAndToggle(queue) ==
  /\ Len(queue) = 2
  /\ { queue[1].kind, queue[2].kind } = { "function", "value" }

RECURSIVE ApplyHandlers(_, _)
ApplyHandlers(state, queue) ==
  IF queue = <<>> THEN state
  ELSE LET update == Head(queue)
           newState == IF update.kind = "function"
                         THEN updateNodeSelection(state, update.nodeId,
                                                  update.checked)
                         ELSE updateNode(state, update.nodeId)
       IN  ApplyHandlers(newState, Tail(queue))

BatchReflectsBoth ==
  [][(SelectionAndToggle(pendingUpdates) /\ pendingUpdates' = <<>>)
       => treeData' = ApplyHandlers(treeData, pendingUpdates)]_vars

(***************************************************************************)
(* C25: in the step editor, after any sequence of add-step, remove-step,   *)
(* Enter, Backspace and Tab the step list is never empty; removing the     *)
(* only step leaves the list unchanged, and so does removing an id that is *)
(* not in the list.                                                        *)
(***************************************************************************)
\* the auto-saving editor showing the list of the container
EditorOn(list, focused) ==
  [InitialEditor EXCEPT !.steps = list, !.focusedStepId = focused]

StepListNeverEmpty ==
  /\ Len(enhancedSteps) >= 1
  /\ Len(enhancedSteps) = 1 =>
       removeStepFrom(enhancedSteps, focusedStepId, enhancedSteps[1].id).steps
         = enhancedSteps
  /\ removeStepFrom(enhancedSteps, focusedStepId, "nonexistent").steps
       = enhancedSteps
  \* removeStep of the auto-saving editor, on the same lists
  /\ \A stepId \in StepIds(enhancedSteps) :
       LET left == removeEditorStepFrom(EditorOn(enhancedSteps, focusedStepId),
                                        stepId).editor.steps
       IN  /\ Len(left) >= 1
           /\ Len(enhancedSteps) = 1 => left = enhancedSteps
           /\ stepId = "nonexistent" => left = enhancedSteps

\* the only step left is one that was added, with every initial step removed
StepListNeverEmptyWitness ==
  /\ Len(enhancedSteps) = 1
  /\ enhancedSteps[1].id = NewStep(0).id
  /\ now = MaxAdded

(***************************************************************************)
(* C27: in the auto-saving editor an edit is never marked saved by a save  *)
(* that started before it: if a step or the name is edited while           *)
(* handleAutoSave or handleManualSave is in flight, hasUnsavedChanges is   *)
(* true after that save completes.                                         *)
(***************************************************************************)
SavesOf(queue) == SelectSeq(queue, IsSave)

EditSurvivesSave ==
  [][\A i \in 1..Len(SavesOf(tasks)) :
       (/\ SavesOf(tasks') = RemoveAt(SavesOf(tasks), i)
        /\ SavesOf(tasks)[i].edited)
         => editor'.hasUnsavedChanges]_vars

(***************************************************************************)
(* C28: once stopExecution(id) has set an execution's status to 'stopped'  *)
(* the status stays 'stopped': the completion timer that executeTest       *)
(* scheduled never overwrites it with 'passed' or 'failed'.                *)
(***************************************************************************)
StoppedStaysStopped ==
  [][\A k \in 1..Len(mockExecutions) :
       mockExecutions[k].status = "stopped"
         => mockExecutions'[k].status = "stopped"]_vars

(***************************************************************************)
(* C29: in the test selection panel, after any sequence of                 *)
(* handleTestSetSelection and handleTestCaseSelection calls, a set's       *)
(* selected flag is true exactly when every one of its test cases is       *)
(* selected, and a call for one set never changes another set.             *)
(***************************************************************************)
OtherSetsKept(sets, setId) ==
  \A k \in 1..Len(testSets) : testSets[k].id # setId => sets[k] = testSets[k]

SetFlagFollowsCases ==
  /\ \A k \in 1..Len(testSets) :
       testSets[k].selected
         <=> \A c \in 1..Len(testSets[k].testCases) :
               testSets[k].testCases[c].selected
  /\ \A setId \in SetIds, checked \in BOOLEAN :
       /\ OtherSetsKept(testSetSelection(testSets, setId, checked), setId)
       /\ \A caseId \in CaseIds :
            OtherSetsKept(testCaseSelection(testSets, setId, caseId, checked),
                          setId)

\* set1 selected through its three test cases, set2 with one of three
SetFlagFollowsCasesWitness ==
  /\ testSets[1].selected
  /\ \A c \in 1..3 : testSets[1].testCases[c].selected
  /\ ~testSets[2].selected
  /\ testSets[2].testCases[2].selected
  /\ ~testSets[2].testCases[1].selected

(***************************************************************************)
(* C30: in the table view, after any sequence of addStep and deleteStep    *)
(* the step numbers are contiguous (the i-th step has stepNumber i), and   *)
(* deleteStep removes exactly the step with the given id and keeps the     *)
(* order of the others.                                                    *)
(***************************************************************************)
WithoutNumber(step) == [step EXCEPT !.stepNumber = 0]

StepNumbersContiguous ==
  /\ \A i \in 1..Len(steps) : steps[i].stepNumber = i
  /\ \A id \in TableStepIds :
       LET left == deleteStepFrom(steps, id)
           kept == SelectSeq(steps, LAMBDA step : step.id # id)
       IN  /\ Len(left) = Len(kept)
           /\ \A i \in 1..Len(left) :
                WithoutNumber(left[i]) = WithoutNumber(kept[i])

\* a step deleted from the middle of the list and a step added after it
StepNumbersContiguousWitness ==
  /\ Len(steps) = 5
  /\ steps[2].id = "3"
  /\ steps[2].stepNumber = 2
  /\ steps[5].id = ToString(Epoch)
  /\ steps[5].stepNumber = 5

====
